---- MODULE Spec2Model ----
(***************************************************************************)
(* A model of the station-metadata queries of pyrocko's fdsn/station.py:   *)
(* epoch validity (BaseNode.spans), the traversal                          *)
(* iter_network_station_channels, channel grouping and selection           *)
(* (get_channel_groups, choose_channels) and response assembly             *)
(* (get_pyrocko_response of ResponseStage, Response and FDSNStationXML),   *)
(* the station entities (get_pyrocko_stations), load_channel_table, and    *)
(* the text parser dumb_parser of rdseed.py.                               *)
(*                                                                         *)
(* Conventions of the translation:                                         *)
(*   - an optional value is a sequence: <<>> is Python's None, <<v>> is v; *)
(*   - a channel code and a location code are sequences of characters, so  *)
(*     that len(), slicing and strip() are computed, net and station codes *)
(*     and unit names are strings;                                         *)
(*   - a channel is identified by its path <<ni, si, ci>> (positions in    *)
(*     network_list, station_list, channel_list), which stands for the     *)
(*     identity of the Python object;                                      *)
(*   - an outcome is a record [kind, value]: kind "ok" for a return, and   *)
(*     the name of the exception for a failure;                            *)
(*   - logged holds the records that the call in progress has handed to    *)
(*     the module's logger, the one logger of all callers, in order.       *)
(***************************************************************************)
EXTENDS Integers, Sequences, FiniteSets, TLC

VARIABLES network_list, op, args, result, logged

vars == <<network_list, op, args, result, logged>>

(***************************************************************************)
(* Bounds of the model.                                                    *)
(***************************************************************************)
MaxTime == 2

None == <<>>

Some(v) == <<v>>

(***************************************************************************)
(* Helpers on sequences.                                                   *)
(***************************************************************************)
RECURSIVE Concat(_)
Concat(ss) ==
    IF ss = <<>> THEN <<>> ELSE Head(ss) \o Concat(Tail(ss))

Range(s) == {s[i] : i \in 1..Len(s)}

Indices(s) == [i \in 1..Len(s) |-> i]

(***************************************************************************)
(* The orders in which the items of s can come where the order is not a    *)
(* function of the content (dictionary iteration, sorted() on objects).    *)
(***************************************************************************)
Orderings(s) ==
    {[i \in 1..Len(s) |-> s[f[i]]] :
        f \in {g \in [1..Len(s) -> 1..Len(s)] :
                    \A i, j \in 1..Len(s) : i # j => g[i] # g[j]}}

(***************************************************************************)
(* str.strip(): leading and trailing whitespace removed.                   *)
(***************************************************************************)
Whitespace == {" ", "\t", "\n", "\r"}

RECURSIVE LStrip(_)
LStrip(s) ==
    IF s = <<>> THEN s
    ELSE IF Head(s) \in Whitespace THEN LStrip(Tail(s)) ELSE s

RECURSIVE RStrip(_)
RStrip(s) ==
    IF s = <<>> THEN s
    ELSE IF s[Len(s)] \in Whitespace THEN RStrip(SubSeq(s, 1, Len(s) - 1))
    ELSE s

Strip(s) == RStrip(LStrip(s))

(***************************************************************************)
(* BaseNode.spans: a is the tuple of the positional arguments.             *)
(* A call with more than two arguments falls off the end of the method     *)
(* (None, which is false where the result is tested).                      *)
(***************************************************************************)
SpansContainment(self, a) ==
    IF Len(a) = 0 THEN TRUE
    ELSE IF Len(a) = 1
    THEN /\ (self.start_date = None \/ self.start_date[1] <= a[1])
         /\ (self.end_date = None \/ a[1] <= self.end_date[1])
    ELSE IF Len(a) = 2
    THEN /\ (self.start_date = None \/ a[1] >= self.start_date[1])
         /\ (self.end_date = None \/ self.end_date[1] >= a[2])
    ELSE FALSE

spans(self, a) ==
    IF Len(a) = 0 THEN TRUE
    ELSE IF Len(a) = 1
    THEN /\ (self.start_date = None \/ self.start_date[1] <= a[1])
         /\ (self.end_date = None \/ a[1] <= self.end_date[1])
    ELSE IF Len(a) = 2
    THEN /\ (self.start_date = None \/ a[2] >= self.start_date[1])
         /\ (self.end_date = None \/ self.end_date[1] >= a[1])
    ELSE FALSE

(***************************************************************************)
(* The tuple tt of the traversals: (time,) if a time is given, else the    *)
(* timespan if one is given, else ().                                      *)
(***************************************************************************)
TimeArgs(time, timespan) ==
    IF time # None THEN <<time[1]>>
    ELSE IF timespan # None THEN timespan[1]
    ELSE <<>>

(***************************************************************************)
(* Access by path.                                                         *)
(***************************************************************************)
NetworkAt(nl, p) == nl[p[1]]

StationAt(nl, p) == nl[p[1]].station_list[p[2]]

ChannelAt(nl, p) == nl[p[1]].station_list[p[2]].channel_list[p[3]]

(***************************************************************************)
(* FDSNStationXML.iter_network_station_channels: the sequence of the       *)
(* yielded (network, station, channel) triples, as paths, in the order of  *)
(* the three nested loops.                                                 *)
(***************************************************************************)
IterIgnoringParents(nl, net, sta, loc, cha, time, timespan) ==
    LET loc1 == IF loc # None THEN Some(Strip(loc[1])) ELSE loc
        tt == TimeArgs(time, timespan)
        OfStation(ni, si) ==
            LET cl == nl[ni].station_list[si].channel_list
                Keep(ci) ==
                    ~ \/ ~spans(cl[ci], tt)
                      \/ (cha # None /\ cl[ci].code # cha[1])
                      \/ (loc1 # None /\ Strip(cl[ci].location_code) # loc1[1])
            IN  [k \in 1..Len(SelectSeq(Indices(cl), Keep)) |->
                    <<ni, si, SelectSeq(Indices(cl), Keep)[k]>>]
        OfNetwork(ni) ==
            LET sl == nl[ni].station_list
                Keep(si) ==
                    ~ (sta # None /\ sl[si].code # sta[1])
                kept == SelectSeq(Indices(sl), Keep)
            IN  Concat([k \in 1..Len(kept) |-> OfStation(ni, kept[k])])
        Keep(ni) ==
            ~ (net # None /\ nl[ni].code # net[1])
        kept == SelectSeq(Indices(nl), Keep)
    IN  Concat([k \in 1..Len(kept) |-> OfNetwork(kept[k])])

iter_network_station_channels(nl, net, sta, loc, cha, time, timespan) ==
    LET loc1 == IF loc # None THEN Some(Strip(loc[1])) ELSE loc
        tt == TimeArgs(time, timespan)
        OfStation(ni, si) ==
            LET cl == nl[ni].station_list[si].channel_list
                Keep(ci) ==
                    ~ \/ ~spans(cl[ci], tt)
                      \/ (cha # None /\ cl[ci].code # cha[1])
                      \/ (loc1 # None /\ Strip(cl[ci].location_code) # loc1[1])
            IN  [k \in 1..Len(SelectSeq(Indices(cl), Keep)) |->
                    <<ni, si, SelectSeq(Indices(cl), Keep)[k]>>]
        OfNetwork(ni) ==
            LET sl == nl[ni].station_list
                Keep(si) ==
                    ~ \/ ~spans(sl[si], tt)
                      \/ (sta # None /\ sl[si].code # sta[1])
                kept == SelectSeq(Indices(sl), Keep)
            IN  Concat([k \in 1..Len(kept) |-> OfStation(ni, kept[k])])
        Keep(ni) ==
            ~ \/ ~spans(nl[ni], tt)
              \/ (net # None /\ nl[ni].code # net[1])
        kept == SelectSeq(Indices(nl), Keep)
    IN  Concat([k \in 1..Len(kept) |-> OfNetwork(kept[k])])

(***************************************************************************)
(* The metadata model: Network, Station and Channel records with the       *)
(* fields the queries read.                                                *)
(***************************************************************************)
Channel(code, location_code, start_date, end_date, sample_rate, response) ==
    [code |-> code, location_code |-> location_code,
     start_date |-> start_date, end_date |-> end_date,
     sample_rate |-> sample_rate, response |-> response]

Station(code, start_date, end_date, channel_list) ==
    [code |-> code, start_date |-> start_date, end_date |-> end_date,
     channel_list |-> channel_list]

Network(code, start_date, end_date, station_list) ==
    [code |-> code, start_date |-> start_date, end_date |-> end_date,
     station_list |-> station_list]

(***************************************************************************)
(* A sample rate value: Python's type of the number and the number, in     *)
(* units of 1e-5 Hz.                                                       *)
(***************************************************************************)
PyFloat(v) == [type |-> "float", value |-> v]

PyInt(v) == [type |-> "int", value |-> v]

Hz == 100000

(***************************************************************************)
(* All paths of the model, in declaration order.                           *)
(***************************************************************************)
AllPaths(nl) ==
    Concat([ni \in 1..Len(nl) |->
        Concat([si \in 1..Len(nl[ni].station_list) |->
            [ci \in 1..Len(nl[ni].station_list[si].channel_list) |->
                <<ni, si, ci>>]])])

(***************************************************************************)
(* Inputs of the epoch queries.                                            *)
(***************************************************************************)
Times == 0..MaxTime

OptTimes == {None} \cup {Some(t) : t \in Times}

SpanChoices ==
    {se \in OptTimes \X OptTimes :
        se[1] = None \/ se[2] = None \/ se[1][1] <= se[2][1]}

NodeSpanChoices == {se \in SpanChoices : se[1] = None \/ se[2] = None}

TimeQueries ==
    {[time |-> None, timespan |-> None]}
    \cup {[time |-> Some(t), timespan |-> None] : t \in Times}
    \cup {[time |-> None, timespan |-> Some(ab)] :
            ab \in {x \in Times \X Times : x[1] <= x[2]}}
    \cup {[time |-> Some(t), timespan |-> Some(<<t, t>>)] : t \in {0}}

HHZ == <<"H", "H", "Z">>

HHN == <<"H", "H", "N">>

LHZ == <<"L", "H", "Z">>

EpochModels ==
    {<<Network("N1", ns[1], ns[2],
         <<Station("S1", ss[1], ss[2],
             <<Channel(HHZ, <<>>, cs[1], cs[2], Some(PyFloat(100 * Hz)), None),
               Channel(LHZ, <<"0", "0", " ">>, None, None,
                       Some(PyFloat(100 * Hz)), None)>>),
           Station("S2", None, None,
             <<Channel(HHZ, <<" ", "0", "0">>, None, None,
                       Some(PyFloat(100 * Hz)), None)>>)>>),
       Network("N2", None, None,
         <<Station("S1", None, None,
             <<Channel(HHZ, <<>>, None, None, Some(PyFloat(100 * Hz)), None)>>)>>)>>
     : ns \in NodeSpanChoices, ss \in NodeSpanChoices, cs \in SpanChoices}

Entities(nl) ==
    {nl[ni] : ni \in 1..Len(nl)}
    \cup {StationAt(nl, p) : p \in Range(AllPaths(nl))}
    \cup {ChannelAt(nl, p) : p \in Range(AllPaths(nl))}

(***************************************************************************)
(* Specification of the epoch queries: spans and the traversal.            *)
(***************************************************************************)
Init ==
    /\ network_list \in EpochModels
    /\ op = "idle"
    /\ args = <<>>
    /\ result = <<>>
    /\ logged = <<>>

Spans ==
    \E e \in Entities(network_list), q \in TimeQueries :
        /\ op = "idle"
        /\ op' = "spans"
        /\ args' = [self |-> e, a |-> TimeArgs(q.time, q.timespan)]
        /\ result' = spans(e, TimeArgs(q.time, q.timespan))
        /\ logged' = <<>>
        /\ UNCHANGED network_list

IterNetworkStationChannels ==
    \E q \in TimeQueries,
       net \in {None, Some("N1")}, sta \in {None, Some("S1")},
       loc \in {None, Some(<<>>), Some(<<" ", "0", "0">>)},
       cha \in {None, Some(HHZ)} :
        /\ op = "idle"
        /\ op' = "iter_network_station_channels"
        /\ args' = [net |-> net, sta |-> sta, loc |-> loc, cha |-> cha,
                    time |-> q.time, timespan |-> q.timespan]
        /\ result' = iter_network_station_channels(
                        network_list, net, sta, loc, cha, q.time, q.timespan)
        /\ logged' = <<>>
        /\ UNCHANGED network_list

(***************************************************************************)
(* The caller takes the result; the next query can start.                  *)
(***************************************************************************)
Return ==
    /\ op # "idle"
    /\ op' = "idle"
    /\ args' = <<>>
    /\ result' = <<>>
    /\ logged' = <<>>
    /\ UNCHANGED network_list

Next == Spans \/ IterNetworkStationChannels \/ Return

Spec == Init /\ [][Next]_vars

(***************************************************************************)
(* The validity span claimed for an entity, stated on its own: the query   *)
(* instants the span covers, and coverage of a query as the claims state   *)
(* it.                                                                     *)
(***************************************************************************)
ClaimedSpans(s, e, a) ==
    CASE Len(a) = 0 -> TRUE
      [] Len(a) = 1 -> (s = None \/ s[1] <= a[1]) /\ (e = None \/ a[1] <= e[1])
      [] Len(a) = 2 -> (s = None \/ a[2] >= s[1]) /\ (e = None \/ e[1] >= a[1])

ValidInstants(s, e) ==
    {t \in Times : (s = None \/ s[1] <= t) /\ (e = None \/ t <= e[1])}

(***************************************************************************)
(* C1: spans() with no argument is true; spans(t) is true iff (s unset or  *)
(* s <= t) and (e unset or t <= e); spans(a, b) is true iff (s unset or    *)
(* b >= s) and (e unset or e >= a): the query interval overlaps the span,  *)
(* it need not be contained in it.                                         *)
(***************************************************************************)
C1_SpansIsOverlap ==
    op = "spans" =>
        LET s == args.self.start_date
            e == args.self.end_date
            a == args.a
        IN  /\ result = ClaimedSpans(s, e, a)
            /\ Len(a) = 0 => result = TRUE
            /\ Len(a) = 1 => (result <=> a[1] \in ValidInstants(s, e))
            /\ Len(a) = 2 =>
                 (result <=> (a[1]..a[2]) \cap ValidInstants(s, e) # {})

C1_Witness ==
    /\ op = "spans"
    /\ Len(args.a) = 2
    /\ args.self.start_date # None
    /\ args.self.end_date # None
    /\ args.a[1] < args.self.start_date[1]
    /\ args.a[2] >= args.self.start_date[1]
    /\ result = TRUE

(***************************************************************************)
(* C6: iter_network_station_channels yields a channel exactly when its     *)
(* network, its station and the channel itself each span the query and     *)
(* every given code filter equals the corresponding code (the location     *)
(* compared after stripping whitespace on both sides); each such channel   *)
(* is yielded once, in declaration order.  So a channel whose own span     *)
(* covers the query is not yielded when its station's or network's span    *)
(* does not, and a channel epoch [s, e] is yielded for an instant inside   *)
(* it and not for an instant after it.                                     *)
(***************************************************************************)
PathLess(p, q) ==
    \/ p[1] < q[1]
    \/ p[1] = q[1] /\ p[2] < q[2]
    \/ p[1] = q[1] /\ p[2] = q[2] /\ p[3] < q[3]

ClaimedYielded(nl, q) ==
    LET tt == IF q.time # None THEN <<q.time[1]>>
              ELSE IF q.timespan # None THEN q.timespan[1] ELSE <<>>
        Covers(x) == ClaimedSpans(x.start_date, x.end_date, tt)
    IN  {p \in Range(AllPaths(nl)) :
            /\ Covers(NetworkAt(nl, p))
            /\ Covers(StationAt(nl, p))
            /\ Covers(ChannelAt(nl, p))
            /\ q.net # None => NetworkAt(nl, p).code = q.net[1]
            /\ q.sta # None => StationAt(nl, p).code = q.sta[1]
            /\ q.cha # None => ChannelAt(nl, p).code = q.cha[1]
            /\ q.loc # None =>
                 Strip(ChannelAt(nl, p).location_code) = Strip(q.loc[1])}

C6_YieldedIffAllSpan ==
    op = "iter_network_station_channels" =>
        /\ Range(result) = ClaimedYielded(network_list, args)
        /\ \A i, j \in 1..Len(result) : i < j => PathLess(result[i], result[j])

C6_Witness ==
    /\ op = "iter_network_station_channels"
    /\ args.time # None
    /\ args.net = None /\ args.sta = None /\ args.loc = None /\ args.cha = None
    /\ ~spans(StationAt(network_list, <<1, 1, 2>>), <<args.time[1]>>)
    /\ spans(ChannelAt(network_list, <<1, 1, 2>>), <<args.time[1]>>)
    /\ <<1, 1, 2>> \notin Range(result)
    /\ <<1, 2, 1>> \in Range(result)

(***************************************************************************)
(* Response, Sensitivity and Units, as far as grouping reads them: a       *)
(* response has an optional instrument_sensitivity, whose input_units is   *)
(* optional and carries a name.                                            *)
(***************************************************************************)
Units(name) == [name |-> name]

Sensitivity(input_units) == [input_units |-> input_units]

Response(instrument_sensitivity, stage_list) ==
    [instrument_sensitivity |-> instrument_sensitivity,
     stage_list |-> stage_list]

Ok(v) == [kind |-> "ok", value |-> v]

Raise(exc) == [kind |-> exc, value |-> <<>>]

(***************************************************************************)
(* logger.warn(msg): the record handed to the module's logger; msg is the  *)
(* fixed text of the message and subject the values formatted into it.     *)
(***************************************************************************)
Warn(msg, subject) == [levelname |-> "WARNING", msg |-> msg, subject |-> subject]

(***************************************************************************)
(* same(x, eps=0.0): false if the values are of mixed types; floats are    *)
(* compared within eps, other values with ==.                              *)
(***************************************************************************)
Abs(x) == IF x < 0 THEN -x ELSE x

same(x) ==
    IF \E i \in 1..Len(x) : x[1].type # x[i].type THEN FALSE
    ELSE IF x[1].type = "float"
    THEN \A i \in 1..Len(x) : Abs(x[i].value - x[1].value) <= 0
    ELSE \A i \in 1..Len(x) : x[i].value = x[1].value

(***************************************************************************)
(* get_channel_groups, first loop: the scope key (net, sta, loc), the      *)
(* bucket key (bic, unit) and the insertion of each yielded channel.       *)
(***************************************************************************)
BandInstrumentCode(cha) ==
    IF Len(cha) = 3 THEN SubSeq(cha, 1, 2)
    ELSE IF Len(cha) = 1 THEN <<>>
    ELSE cha

UnitFails(channel) ==
    /\ channel.response # None
    /\ channel.response[1].instrument_sensitivity # None
    /\ channel.response[1].instrument_sensitivity[1].input_units = None

UnitOf(channel) ==
    IF channel.response # None
       /\ channel.response[1].instrument_sensitivity # None
    THEN Some(channel.response[1].instrument_sensitivity[1].input_units[1].name)
    ELSE None

ScopeKey(nl, p) ==
    <<NetworkAt(nl, p).code, StationAt(nl, p).code,
      Strip(ChannelAt(nl, p).location_code)>>

BucketKeyWithoutUnit(nl, p) ==
    <<BandInstrumentCode(ChannelAt(nl, p).code), None>>

BucketKey(nl, p) ==
    <<BandInstrumentCode(ChannelAt(nl, p).code), UnitOf(ChannelAt(nl, p))>>

RECURSIVE GroupLoop(_, _, _)
GroupLoop(nl, ys, groups) ==
    IF ys = <<>> THEN groups
    ELSE LET p == Head(ys)
             k == ScopeKey(nl, p)
             bic == BucketKey(nl, p)
             g1 == IF k \in DOMAIN groups THEN groups ELSE (k :> <<>>) @@ groups
             g2 == IF bic \in DOMAIN g1[k] THEN g1
                   ELSE [g1 EXCEPT ![k] = (bic :> <<>>) @@ g1[k]]
             g3 == [g2 EXCEPT ![k][bic] = Append(g2[k][bic], p)]
         IN  GroupLoop(nl, Tail(ys), g3)

(***************************************************************************)
(* get_channel_groups, second loop: the buckets whose sample rates are not *)
(* the same are deleted from their scope; the scope stays.                 *)
(***************************************************************************)
SampleRates(nl, channels) ==
    [i \in 1..Len(channels) |-> ChannelAt(nl, channels[i]).sample_rate[1]]

KeepAllBuckets(nl, groups) == groups

DropFirstInconsistent(nl, groups) ==
    [k \in DOMAIN groups |->
        LET bad_bics == {bic \in DOMAIN groups[k] :
                            ~same(SampleRates(nl, groups[k][bic]))}
            first == IF bad_bics = {} THEN {}
                     ELSE {CHOOSE bic \in bad_bics : TRUE}
        IN  [bic \in (DOMAIN groups[k]) \ first |-> groups[k][bic]]]

DropInconsistent(nl, groups) ==
    [k \in DOMAIN groups |->
        LET bad_bics == {bic \in DOMAIN groups[k] :
                            ~same(SampleRates(nl, groups[k][bic]))}
        IN  [bic \in (DOMAIN groups[k]) \ bad_bics |-> groups[k][bic]]]

(***************************************************************************)
(* FDSNStationXML.get_channel_groups: the mapping scope -> bucket -> list  *)
(* of channels, or the AttributeError of reading .name of a missing        *)
(* input_units or .value of a missing sample_rate.                         *)
(***************************************************************************)
get_channel_groups(nl, net, sta, loc, cha, time, timespan) ==
    LET ys == iter_network_station_channels(nl, net, sta, loc, cha,
                                            time, timespan)
    IN  IF \E i \in 1..Len(ys) : UnitFails(ChannelAt(nl, ys[i]))
        THEN Raise("AttributeError")
        ELSE IF \E i \in 1..Len(ys) : ChannelAt(nl, ys[i]).sample_rate = None
        THEN Raise("AttributeError")
        ELSE Ok(DropInconsistent(nl, GroupLoop(nl, ys, <<>>)))

(***************************************************************************)
(* Python 2 ordering of the values that occur in a ranking tuple: strings  *)
(* by character code, None before every string, tuples field by field.     *)
(***************************************************************************)
AsciiOrder ==
    <<"\t", "\n", "\r", " ", "0", "1", "B", "E", "H", "L", "M", "N", "S",
      "V", "Z">>

Ord(c) == CHOOSE i \in 1..Len(AsciiOrder) : AsciiOrder[i] = c

RECURSIVE StrLess(_, _)
StrLess(s, t) ==
    IF t = <<>> THEN FALSE
    ELSE IF s = <<>> THEN TRUE
    ELSE IF Ord(Head(s)) # Ord(Head(t)) THEN Ord(Head(s)) < Ord(Head(t))
    ELSE StrLess(Tail(s), Tail(t))

UnitNameOrder == <<"M", "M/S", "M/S**2">>

UnitLess(u, v) ==
    IF v = None THEN FALSE
    ELSE IF u = None THEN TRUE
    ELSE (CHOOSE i \in 1..Len(UnitNameOrder) : UnitNameOrder[i] = u[1])
         < (CHOOSE i \in 1..Len(UnitNameOrder) : UnitNameOrder[i] = v[1])

BicLess(b, c) ==
    \/ StrLess(b[1], c[1])
    \/ b[1] = c[1] /\ UnitLess(b[2], c[2])

TupleLessCountLast(x, y) ==
    \/ x[2] < y[2]
    \/ x[2] = y[2] /\ x[3] < y[3]
    \/ x[2] = y[2] /\ x[3] = y[3] /\ x[4] < y[4]
    \/ x[2] = y[2] /\ x[3] = y[3] /\ x[4] = y[4] /\ x[5] < y[5]
    \/ x[2] = y[2] /\ x[3] = y[3] /\ x[4] = y[4] /\ x[5] = y[5]
       /\ x[1] < y[1]
    \/ x[2] = y[2] /\ x[3] = y[3] /\ x[4] = y[4] /\ x[5] = y[5]
       /\ x[1] = y[1] /\ BicLess(x[6], y[6])

TupleLess(x, y) ==
    \/ x[1] < y[1]
    \/ x[1] = y[1] /\ x[2] < y[2]
    \/ x[1] = y[1] /\ x[2] = y[2] /\ x[3] < y[3]
    \/ x[1] = y[1] /\ x[2] = y[2] /\ x[3] = y[3] /\ x[4] < y[4]
    \/ x[1] = y[1] /\ x[2] = y[2] /\ x[3] = y[3] /\ x[4] = y[4]
       /\ x[5] < y[5]
    \/ x[1] = y[1] /\ x[2] = y[2] /\ x[3] = y[3] /\ x[4] = y[4]
       /\ x[5] = y[5] /\ BicLess(x[6], y[6])

(***************************************************************************)
(* list.sort() of the ranking tuples (insertion into a sorted list).       *)
(***************************************************************************)
RECURSIVE Insert(_, _)
Insert(x, s) ==
    IF s = <<>> THEN <<x>>
    ELSE IF TupleLess(x, Head(s)) THEN <<x>> \o s
    ELSE <<Head(s)>> \o Insert(x, Tail(s))

RECURSIVE Sort(_)
Sort(s) == IF s = <<>> THEN <<>> ELSE Insert(Head(s), Sort(Tail(s)))

SetToSeq(S) ==
    CHOOSE s \in [1..Cardinality(S) -> S] : Range(s) = S

(***************************************************************************)
(* list.index(x), or the length of the list where index raises ValueError. *)
(***************************************************************************)
IndexOrLen(list, x) ==
    IF \E i \in 1..Len(list) : list[i] = x
    THEN (CHOOSE i \in 1..Len(list) :
            list[i] = x /\ \A j \in 1..(i - 1) : list[j] # x) - 1
    ELSE Len(list)

(***************************************************************************)
(* Sample rates are counted in units of 1e-5 Hz, so that the product       *)
(* target_sample_rate*0.99999 is exact for a target of whole Hz.           *)
(***************************************************************************)
TargetTimesTolerance(target) == (target \div Hz) * 99999

BelowTargetStrict(rate, target) ==
    target # None /\ rate < target[1]

BelowTarget(rate, target) ==
    target # None /\ rate < TargetTimesTolerance(target[1])

(***************************************************************************)
(* choose_channels, the ranking tuple of one bucket:                       *)
(* (-len(channels), prio_band, rate, prio_unit, prio_inst, bic).           *)
(***************************************************************************)
RankTuple(nl, a, bic, channels) ==
    LET code == ChannelAt(nl, channels[1]).code
        rate == ChannelAt(nl, channels[1]).sample_rate[1].value
        prio_unit ==
            IF bic[2] = None THEN Len(a.priority_units)
            ELSE IndexOrLen(a.priority_units, bic[2][1])
        prio_inst ==
            IF Len(code) = 3
            THEN IndexOrLen(a.priority_instrument_code, code[2])
            ELSE Len(a.priority_instrument_code)
        prio_band ==
            IF Len(code) = 3
            THEN IndexOrLen(a.priority_band_code, code[1])
            ELSE Len(a.priority_band_code)
    IN  <<-Len(channels), prio_band,
          IF a.target_sample_rate = None THEN -rate ELSE rate,
          prio_unit, prio_inst, bic>>

UsefulBics(nl, a, bic_to_channels) ==
    {bic \in DOMAIN bic_to_channels :
        ~BelowTarget(
            ChannelAt(nl, bic_to_channels[bic][1]).sample_rate[1].value,
            a.target_sample_rate)}

SortedUsefulBics(nl, a, bic_to_channels) ==
    Sort(SetToSeq({RankTuple(nl, a, bic, bic_to_channels[bic]) :
                    bic \in UsefulBics(nl, a, bic_to_channels)}))

(***************************************************************************)
(* choose_channels, the bucket taken in each scope: the first of the       *)
(* sorted ranking tuples, if there is one.                                 *)
(***************************************************************************)
ChosenBics(nl, a, groups) ==
    [k \in {x \in DOMAIN groups :
                SortedUsefulBics(nl, a, groups[x]) # <<>>} |->
        SortedUsefulBics(nl, a, groups[k])[1][6]]

(***************************************************************************)
(* choose_channels, the mapping nsl + (code,) -> channel.  The members of  *)
(* the chosen bucket are assigned in the order of sorted(channels), an     *)
(* order of Channel objects that the source does not define, so that any   *)
(* member of a code can be the one assigned last.  The operator is the set *)
(* of the mappings a call can return.                                      *)
(***************************************************************************)
AllBucketsMappings(nl, groups, chosen) ==
    LET Members(k) ==
            Concat([i \in 1..Cardinality(DOMAIN groups[k]) |->
                        groups[k][SetToSeq(DOMAIN groups[k])[i]]])
        KeysOf(k) == {k \o <<ChannelAt(nl, Members(k)[i]).code>> :
                        i \in 1..Len(Members(k))}
        keys == UNION {KeysOf(k) : k \in DOMAIN chosen}
        WithCode(key) ==
            {p \in Range(Members(SubSeq(key, 1, 3))) :
                ChannelAt(nl, p).code = key[4]}
    IN  {f \in [keys -> UNION {Range(Members(k)) : k \in DOMAIN chosen}] :
            \A key \in keys : f[key] \in WithCode(key)}

ChosenMappings(nl, groups, chosen) ==
    LET Members(k) == groups[k][chosen[k]]
        KeysOf(k) == {k \o <<ChannelAt(nl, Members(k)[i]).code>> :
                        i \in 1..Len(Members(k))}
        keys == UNION {KeysOf(k) : k \in DOMAIN chosen}
        WithCode(key) ==
            {p \in Range(Members(SubSeq(key, 1, 3))) :
                ChannelAt(nl, p).code = key[4]}
    IN  {f \in [keys -> UNION {Range(Members(k)) : k \in DOMAIN chosen}] :
            \A key \in keys : f[key] \in WithCode(key)}

(***************************************************************************)
(* FDSNStationXML.choose_channels: the outcomes of a call with arguments a *)
(* (a failure of get_channel_groups propagates).                           *)
(***************************************************************************)
choose_channels(nl, a) ==
    LET g == get_channel_groups(nl, None, None, None, None,
                                a.time, a.timespan)
    IN  IF g.kind # "ok" THEN {g}
        ELSE {Ok(f) : f \in ChosenMappings(nl, g.value,
                                ChosenBics(nl, a, g.value))}

(***************************************************************************)
(* The records logged by get_channel_groups.  The second loop visits the   *)
(* scopes, and in a scope the buckets, in dictionary order; it logs one    *)
(* record for each bucket of differing sample rates and ends at the first  *)
(* bucket with a channel without sample rate (the AttributeError).         *)
(***************************************************************************)
BucketOrders(groups) ==
    LET pairs == UNION {{<<k, bic>> : bic \in DOMAIN groups[k]} :
                            k \in DOMAIN groups}
    IN  {o \in Orderings(SetToSeq(pairs)) :
            \A i, j, l \in 1..Len(o) :
                (i < j /\ j < l /\ o[i][1] = o[l][1]) => o[j][1] = o[i][1]}

RECURSIVE BucketsLogged(_, _, _)
BucketsLogged(nl, groups, order) ==
    IF order = <<>> THEN <<>>
    ELSE LET nsl == Head(order)[1]
             channels == groups[nsl][Head(order)[2]]
         IN  IF \E i \in 1..Len(channels) :
                    ChannelAt(nl, channels[i]).sample_rate = None
             THEN <<>>
             ELSE (IF ~same(SampleRates(nl, channels))
                   THEN <<Warn("ignoring channels with inconsistent sampling rates",
                               [nsl |-> nsl,
                                scs |-> [i \in 1..Len(channels) |->
                                            ChannelAt(nl, channels[i]).code],
                                srs |-> SampleRates(nl, channels)])>>
                   ELSE <<>>)
                  \o BucketsLogged(nl, groups, Tail(order))

get_channel_groups_logged(nl, net, sta, loc, cha, time, timespan) ==
    LET ys == iter_network_station_channels(nl, net, sta, loc, cha,
                                            time, timespan)
        groups == GroupLoop(nl, ys, <<>>)
    IN  IF \E i \in 1..Len(ys) : UnitFails(ChannelAt(nl, ys[i]))
        THEN {<<>>}
        ELSE {BucketsLogged(nl, groups, o) : o \in BucketOrders(groups)}

(***************************************************************************)
(* Inputs of the grouping queries: channels that differ from a base        *)
(* channel (N1.S1, "HHZ" or "HHN", location "", unit M/S, 100 Hz float) in *)
(* at most one of station, code shape, location, unit and sample rate,     *)
(* listed in up to MaxChannels records in any order and with repetitions.  *)
(***************************************************************************)
MaxChannels == 3

WithUnit(name) == Some(Response(Some(Sensitivity(Some(Units(name)))), <<>>))

GroupSlots == {<<1, 1>>, <<1, 2>>, <<2, 1>>}

GroupCodes == {HHZ, HHN, <<"H", "L", "Z">>, <<"H", "H">>, <<"Z">>, <<"N">>}

GroupLocs == {<<>>, <<" ">>, <<"0", "0">>}

GroupResponses ==
    {WithUnit("M/S"), WithUnit("M"), None, Some(Response(None, <<>>))}

GroupRates == {PyFloat(100 * Hz), PyFloat(50 * Hz), PyInt(100 * Hz)}

GroupRecords ==
    {r \in [slot : GroupSlots, code : GroupCodes, loc : GroupLocs,
            response : GroupResponses, rate : GroupRates] :
        Cardinality({d \in {"slot", "code", "loc", "response", "rate"} :
            \/ d = "slot" /\ r.slot # <<1, 1>>
            \/ d = "code" /\ r.code \notin {HHZ, HHN}
            \/ d = "loc" /\ r.loc # <<>>
            \/ d = "response" /\ r.response # WithUnit("M/S")
            \/ d = "rate" /\ r.rate # PyFloat(100 * Hz)}) <= 1}

RecordLists(records, n) == UNION {[1..k -> records] : k \in 0..n}

ChannelsOfSlot(recs, slot) ==
    LET mine == SelectSeq(recs, LAMBDA r : r.slot = slot)
    IN  [i \in 1..Len(mine) |->
            Channel(mine[i].code, mine[i].loc, None, None,
                    Some(mine[i].rate), mine[i].response)]

ModelOf(recs) ==
    <<Network("N1", None, None,
        <<Station("S1", None, None, ChannelsOfSlot(recs, <<1, 1>>)),
          Station("S2", None, None, ChannelsOfSlot(recs, <<1, 2>>))>>),
      Network("N2", None, None,
        <<Station("S1", None, None, ChannelsOfSlot(recs, <<2, 1>>))>>)>>

(***************************************************************************)
(* Specification of the grouping queries.                                  *)
(***************************************************************************)
InitGroups ==
    /\ network_list \in
        {ModelOf(recs) : recs \in RecordLists(GroupRecords, MaxChannels)}
    /\ op = "idle"
    /\ args = <<>>
    /\ result = <<>>
    /\ logged = <<>>

GetChannelGroups ==
    \E loc \in {None, Some(<<" ">>)} :
        /\ op = "idle"
        /\ op' = "get_channel_groups"
        /\ args' = [net |-> None, sta |-> None, loc |-> loc, cha |-> None,
                    time |-> None, timespan |-> None]
        /\ result' = get_channel_groups(network_list, None, None, loc, None,
                                        None, None)
        /\ logged' \in get_channel_groups_logged(network_list, None, None, loc,
                                                 None, None, None)
        /\ UNCHANGED network_list

NextGroups == GetChannelGroups \/ Return

SpecGroups == InitGroups /\ [][NextGroups]_vars

(***************************************************************************)
(* The grouping criteria as the claims state them: the band-instrument key *)
(* of a channel code, the declared input unit (absent without a response   *)
(* or an overall sensitivity), and agreement of two channels.              *)
(***************************************************************************)
ClaimedBandInstrumentKey(code) ==
    CASE Len(code) = 3 -> <<code[1], code[2]>>
      [] Len(code) = 1 -> <<>>
      [] OTHER -> code

ClaimedUnit(channel) ==
    IF channel.response = None THEN "unknown"
    ELSE IF channel.response[1].instrument_sensitivity = None THEN "unknown"
    ELSE channel.response[1].instrument_sensitivity[1].input_units[1].name

ClaimedAgree(nl, p, q) ==
    /\ NetworkAt(nl, p).code = NetworkAt(nl, q).code
    /\ StationAt(nl, p).code = StationAt(nl, q).code
    /\ Strip(ChannelAt(nl, p).location_code)
         = Strip(ChannelAt(nl, q).location_code)
    /\ ClaimedBandInstrumentKey(ChannelAt(nl, p).code)
         = ClaimedBandInstrumentKey(ChannelAt(nl, q).code)
    /\ ClaimedUnit(ChannelAt(nl, p)) = ClaimedUnit(ChannelAt(nl, q))

Places(groups, p) ==
    {kbi \in UNION {UNION {{<<k, b, i>> : i \in 1..Len(groups[k][b])} :
                        b \in DOMAIN groups[k]} : k \in DOMAIN groups} :
        groups[kbi[1]][kbi[2]][kbi[3]] = p}

GroupedPaths(groups) ==
    UNION {UNION {Range(groups[k][b]) : b \in DOMAIN groups[k]} :
            k \in DOMAIN groups}

ClaimedConsistent(nl, ys, p) ==
    \A q \in ys :
        ClaimedAgree(nl, p, q) =>
            ChannelAt(nl, q).sample_rate = ChannelAt(nl, p).sample_rate

(***************************************************************************)
(* C4: in the result of get_channel_groups the members of every bucket     *)
(* report the same sample rate (same type, same value); a bucket whose     *)
(* members differ is removed as a whole, none of its channels remains, and *)
(* the channels of every other bucket remain.                              *)
(***************************************************************************)
C4_InconsistentBucketsDropped ==
    (op = "get_channel_groups" /\ result.kind = "ok") =>
        LET g == result.value
            ys == ClaimedYielded(network_list, args)
        IN  /\ \A k \in DOMAIN g : \A b \in DOMAIN g[k] :
                \A i, j \in 1..Len(g[k][b]) :
                    ChannelAt(network_list, g[k][b][i]).sample_rate
                        = ChannelAt(network_list, g[k][b][j]).sample_rate
            /\ \A p \in ys :
                p \in GroupedPaths(g) <=> ClaimedConsistent(network_list, ys, p)

C4_Witness ==
    /\ op = "get_channel_groups"
    /\ result.kind = "ok"
    /\ \E p, q \in ClaimedYielded(network_list, args) :
        /\ ScopeKey(network_list, p) = ScopeKey(network_list, q)
        /\ p \notin GroupedPaths(result.value)
        /\ q \in GroupedPaths(result.value)
        /\ \E r \in ClaimedYielded(network_list, args) :
            /\ r # p
            /\ ClaimedAgree(network_list, p, r)
            /\ ChannelAt(network_list, r).sample_rate[1].value
                 = ChannelAt(network_list, p).sample_rate[1].value
            /\ ChannelAt(network_list, r).sample_rate
                 # ChannelAt(network_list, p).sample_rate

(***************************************************************************)
(* C5: two channels of the result of get_channel_groups are in the same    *)
(* bucket iff they agree on network code, station code, stripped location  *)
(* code, band-instrument key and input unit; the scope key of a bucket is  *)
(* (network code, station code, stripped location code) of its members;    *)
(* every yielded channel that the sample-rate check does not remove is in  *)
(* exactly one bucket, once, and a bucket lists its members in traversal   *)
(* order.                                                                  *)
(***************************************************************************)
C5_SameBucketIffAgree ==
    (op = "get_channel_groups" /\ result.kind = "ok") =>
        LET g == result.value
            nl == network_list
            ys == ClaimedYielded(nl, args)
        IN  /\ GroupedPaths(g) \subseteq ys
            /\ \A p, q \in GroupedPaths(g) :
                (\E k \in DOMAIN g : \E b \in DOMAIN g[k] :
                    p \in Range(g[k][b]) /\ q \in Range(g[k][b]))
                <=> ClaimedAgree(nl, p, q)
            /\ \A k \in DOMAIN g : \A b \in DOMAIN g[k] :
                /\ \A i \in 1..Len(g[k][b]) :
                    k = <<NetworkAt(nl, g[k][b][i]).code,
                          StationAt(nl, g[k][b][i]).code,
                          Strip(ChannelAt(nl, g[k][b][i]).location_code)>>
                /\ \A i, j \in 1..Len(g[k][b]) :
                    i < j => PathLess(g[k][b][i], g[k][b][j])
            /\ \A p \in ys :
                ClaimedConsistent(nl, ys, p) =>
                    Cardinality(Places(g, p)) = 1

C5_Witness ==
    /\ op = "get_channel_groups"
    /\ result.kind = "ok"
    /\ \E k \in DOMAIN result.value :
        /\ Cardinality(DOMAIN result.value[k]) = 2
        /\ \E b \in DOMAIN result.value[k] :
            /\ Len(result.value[k][b]) = 2
            /\ Len(ChannelAt(network_list, result.value[k][b][1]).code)
                 # Len(ChannelAt(network_list, result.value[k][b][2]).code)

(***************************************************************************)
(* Inputs of the selection queries: channels of station N1.S1 (one record  *)
(* kind of N1.S2) that differ from a base channel ("HHZ" or "HHN",         *)
(* location "", unit M/S, 100 Hz) in at most one of location, unit and     *)
(* sample rate, and channels of other bands (these also at a rate just     *)
(* below the target), instruments and code lengths.                        *)
(***************************************************************************)
DefaultPriorityBandCode == <<"H", "B", "M", "L", "V", "E", "S">>

DefaultPriorityUnits == <<"M/S", "M/S**2">>

DefaultPriorityInstrumentCode == <<"H", "L">>

ChooseRates ==
    {PyFloat(100 * Hz), PyFloat(50 * Hz), PyFloat(100 * Hz - 50),
     PyFloat(100 * Hz - 150), PyFloat(200 * Hz)}

ChooseRecords ==
    {r \in [slot : {<<1, 1>>, <<1, 2>>},
            code : {HHZ, HHN, LHZ, <<"L", "H", "N">>, <<"H", "L", "Z">>,
                    <<"H", "Z">>},
            loc : {<<>>, <<" ">>, <<"0", "0">>},
            response : {WithUnit("M/S"), WithUnit("M/S**2"), WithUnit("M"),
                        None},
            rate : ChooseRates] :
        Cardinality({d \in {"slot", "code", "loc", "response", "rate"} :
            \/ d = "slot" /\ r.slot # <<1, 1>>
            \/ d = "code" /\ r.code \notin {HHZ, HHN}
            \/ d = "loc" /\ r.loc # <<>>
            \/ d = "response" /\ r.response # WithUnit("M/S")
            \/ d = "rate" /\ r.rate # PyFloat(100 * Hz)
                          /\ ~(r.code[1] = "L"
                               /\ r.rate = PyFloat(100 * Hz - 150))}) <= 1}

ChooseArgs ==
    [target_sample_rate : {None, Some(100 * Hz)},
     priority_band_code : {DefaultPriorityBandCode, <<"L", "H">>},
     priority_units : {DefaultPriorityUnits},
     priority_instrument_code : {DefaultPriorityInstrumentCode},
     time : {None}, timespan : {None}]

(***************************************************************************)
(* Specification of the selection queries.                                 *)
(***************************************************************************)
InitChoose ==
    /\ network_list \in
        {ModelOf(recs) : recs \in RecordLists(ChooseRecords, MaxChannels)}
    /\ op = "idle"
    /\ args = <<>>
    /\ result = <<>>
    /\ logged = <<>>

ChooseChannels ==
    \E a \in ChooseArgs :
        /\ op = "idle"
        /\ op' = "choose_channels"
        /\ args' = a
        /\ result' \in choose_channels(network_list, a)
        /\ logged' \in get_channel_groups_logged(network_list, None, None, None,
                                                 None, a.time, a.timespan)
        /\ UNCHANGED network_list

NextChoose == ChooseChannels \/ Return

SpecChoose == InitChoose /\ [][NextChoose]_vars

(***************************************************************************)
(* The selection as the claims state it.  A bucket is below the target     *)
(* when its rate is less than target * 0.99999, that is when the target    *)
(* exceeds the rate by more than a 100000th of the target.  The band and   *)
(* instrument priority indices are the positions of the first and second   *)
(* character of a 3-character channel code in their lists; they are last   *)
(* (the length of the list) for a character not listed and for codes of    *)
(* another length.                                                         *)
(***************************************************************************)
ClaimedBelowTarget(rate, target) ==
    target # None /\ (target[1] - rate) > target[1] \div 100000

Position(list, x) ==
    IF x \in Range(list)
    THEN Cardinality({i \in 1..Len(list) :
                        \A j \in 1..i : list[j] # x})
    ELSE Len(list)

ClaimedRate(nl, channels) ==
    ChannelAt(nl, channels[1]).sample_rate[1].value

ClaimedKey(nl, a, bic, channels) ==
    LET code == ChannelAt(nl, channels[1]).code
    IN  <<0 - Len(channels),
          IF Len(code) = 3 THEN Position(a.priority_band_code, code[1])
          ELSE Len(a.priority_band_code),
          IF a.target_sample_rate # None THEN ClaimedRate(nl, channels)
          ELSE 0 - ClaimedRate(nl, channels),
          IF bic[2] = None THEN Len(a.priority_units)
          ELSE Position(a.priority_units, bic[2][1]),
          IF Len(code) = 3 THEN Position(a.priority_instrument_code, code[2])
          ELSE Len(a.priority_instrument_code),
          bic>>

ClaimedKeyLess(x, y) ==
    \E i \in 1..6 :
        /\ \A j \in 1..(i - 1) : x[j] = y[j]
        /\ IF i < 6 THEN x[i] < y[i] ELSE BicLess(x[i], y[i])

Groups(nl, a) ==
    get_channel_groups(nl, None, None, None, None, a.time, a.timespan).value

Passing(nl, a, g, k) ==
    {b \in DOMAIN g[k] :
        ~ClaimedBelowTarget(ClaimedRate(nl, g[k][b]), a.target_sample_rate)}

KeysOfScope(f, k) == {key \in DOMAIN f : SubSeq(key, 1, 3) = k}

SelectedBuckets(g, f, k) ==
    {b \in DOMAIN g[k] :
        \E key \in KeysOfScope(f, k) : f[key] \in Range(g[k][b])}

ChooseOk == op = "choose_channels" /\ result.kind = "ok"

C7_TargetRateFilter ==
    ChooseOk =>
        LET nl == network_list
            f == result.value
            g == Groups(nl, args)
        IN  /\ \A key \in DOMAIN f :
                ~ClaimedBelowTarget(ChannelAt(nl, f[key]).sample_rate[1].value,
                                    args.target_sample_rate)
            /\ \A k \in DOMAIN g :
                (\E b \in DOMAIN g[k] :
                    ~ClaimedBelowTarget(ClaimedRate(nl, g[k][b]),
                                        args.target_sample_rate))
                <=> KeysOfScope(f, k) # {}

C7_Witness ==
    /\ ChooseOk
    /\ args.target_sample_rate # None
    /\ args.priority_band_code = <<"L", "H">>
    /\ LET gs == Groups(network_list, args)
       IN  \E k \in DOMAIN gs : \E x, s \in DOMAIN gs[k] :
            /\ ClaimedBelowTarget(ClaimedRate(network_list, gs[k][x]),
                                  args.target_sample_rate)
            /\ Len(gs[k][x]) > Len(gs[k][s])
            /\ x[1] = <<"L", "H">>
            /\ ClaimedRate(network_list, gs[k][s]) < args.target_sample_rate[1]
            /\ SelectedBuckets(gs, result.value, k) = {s}

(***************************************************************************)
(* C8: in the mapping returned by choose_channels the keys of a scope are  *)
(* exactly the tuples scope + (code,) of the members of one single bucket  *)
(* of that scope, each mapped to a member of that bucket with that code;   *)
(* no channel of another bucket appears, every key belongs to a scope of   *)
(* the grouping, and a scope with no passing bucket has no key.            *)
(***************************************************************************)
C8_OneBucketPerScope ==
    ChooseOk =>
        LET nl == network_list
            f == result.value
            g == Groups(nl, args)
        IN  /\ \A key \in DOMAIN f : SubSeq(key, 1, 3) \in DOMAIN g
            /\ \A k \in DOMAIN g :
                \/ /\ KeysOfScope(f, k) = {}
                   /\ Passing(nl, args, g, k) = {}
                \/ \E b \in DOMAIN g[k] :
                    /\ KeysOfScope(f, k) =
                        {k \o <<ChannelAt(nl, p).code>> : p \in Range(g[k][b])}
                    /\ \A key \in KeysOfScope(f, k) :
                        /\ f[key] \in Range(g[k][b])
                        /\ ChannelAt(nl, f[key]).code = key[4]

C8_Witness ==
    /\ ChooseOk
    /\ LET gs == Groups(network_list, args)
       IN  \E k1, k2 \in DOMAIN gs :
            /\ gs[k1] # <<>>
            /\ KeysOfScope(result.value, k1) = {}
            /\ Cardinality(KeysOfScope(result.value, k2)) = 1
            /\ \E b \in DOMAIN gs[k2] :
                /\ Len(gs[k2][b]) = 2
                /\ SelectedBuckets(gs, result.value, k2) = {b}

(***************************************************************************)
(* Response stages.  A PolesZeros carries its transfer function type and   *)
(* its normalization factor (poles and zeros are kept as given); a stage   *)
(* carries a list of PolesZeros, the other descriptions and an optional    *)
(* stage gain.                                                             *)
(***************************************************************************)
PolesZeros(pz_transfer_function_type, normalization_factor) ==
    [pz_transfer_function_type |-> pz_transfer_function_type,
     normalization_factor |-> normalization_factor,
     zero_list |-> <<>>, pole_list |-> <<>>]

Gain(value) == [value |-> value]

ResponseStage(poles_zeros_list, coefficients_list, response_list, fir, polynomial, stage_gain) ==
    [poles_zeros_list |-> poles_zeros_list,
     coefficients_list |-> coefficients_list,
     response_list |-> response_list, fir |-> fir,
     polynomial |-> polynomial, stage_gain |-> stage_gain]

(***************************************************************************)
(* The elementary responses of pyrocko.trace that the assembly builds.     *)
(***************************************************************************)
PoleZeroResponse(constant, zeros, poles) ==
    [type |-> "PoleZeroResponse", constant |-> constant,
     zeros |-> zeros, poles |-> poles]

IntegrationResponse(n) == [type |-> "IntegrationResponse", n |-> n]

DifferentiationResponse(n) == [type |-> "DifferentiationResponse", n |-> n]

MultiplyResponse(responses) ==
    [type |-> "MultiplyResponse", responses |-> responses]

ConversionWrongOrder ==
    (<<"M", "M">> :> None)
    @@ (<<"M/S", "M">> :> Some(IntegrationResponse(1)))
    @@ (<<"M/S**2", "M">> :> Some(IntegrationResponse(1)))
    @@ (<<"M", "M/S">> :> Some(DifferentiationResponse(1)))
    @@ (<<"M/S", "M/S">> :> None)
    @@ (<<"M/S**2", "M/S">> :> Some(IntegrationResponse(1)))
    @@ (<<"M", "M/S**2">> :> Some(DifferentiationResponse(2)))
    @@ (<<"M/S", "M/S**2">> :> Some(DifferentiationResponse(1)))
    @@ (<<"M/S**2", "M/S**2">> :> None)

ConversionWithoutVelocityIdentity ==
    (<<"M", "M">> :> None)
    @@ (<<"M/S", "M">> :> Some(IntegrationResponse(1)))
    @@ (<<"M/S**2", "M">> :> Some(IntegrationResponse(2)))
    @@ (<<"M", "M/S">> :> Some(DifferentiationResponse(1)))
    @@ (<<"M/S**2", "M/S">> :> Some(IntegrationResponse(1)))
    @@ (<<"M", "M/S**2">> :> Some(DifferentiationResponse(2)))
    @@ (<<"M/S", "M/S**2">> :> Some(DifferentiationResponse(1)))
    @@ (<<"M/S**2", "M/S**2">> :> None)

(***************************************************************************)
(* The table conversion: (requested unit, documented unit) -> None or a    *)
(* response; a pair that is no key raises KeyError.                        *)
(***************************************************************************)
conversion ==
    (<<"M", "M">> :> None)
    @@ (<<"M/S", "M">> :> Some(IntegrationResponse(1)))
    @@ (<<"M/S**2", "M">> :> Some(IntegrationResponse(2)))
    @@ (<<"M", "M/S">> :> Some(DifferentiationResponse(1)))
    @@ (<<"M/S", "M/S">> :> None)
    @@ (<<"M/S**2", "M/S">> :> Some(IntegrationResponse(1)))
    @@ (<<"M", "M/S**2">> :> Some(DifferentiationResponse(2)))
    @@ (<<"M/S", "M/S**2">> :> Some(DifferentiationResponse(1)))
    @@ (<<"M/S**2", "M/S**2">> :> None)

(***************************************************************************)
(* PolesZeros.get_pyrocko_response: only 'LAPLACE (RADIANS/SECOND)' is     *)
(* converted; the comparison of the normalization factors only logs.       *)
(***************************************************************************)
PolesZerosGetPyrockoResponse(self) ==
    IF self.pz_transfer_function_type # "LAPLACE (RADIANS/SECOND)"
    THEN Raise("NoResponseInformation")
    ELSE Ok(PoleZeroResponse(self.normalization_factor,
                             self.zero_list, self.pole_list))

(***************************************************************************)
(* ResponseStage.get_pyrocko_response: the list of the stage's responses.  *)
(***************************************************************************)
StageGainFirst(self) ==
    LET gain == IF self.stage_gain # None
                THEN <<PoleZeroResponse(self.stage_gain[1].value, <<>>, <<>>)>>
                ELSE <<>>
    IN  IF Len(self.poles_zeros_list) >= 1
        THEN LET pz == PolesZerosGetPyrockoResponse(self.poles_zeros_list[1])
             IN  IF pz.kind # "ok" THEN pz ELSE Ok(gain \o <<pz.value>>)
        ELSE Ok(gain)

StageGetPyrockoResponse(self) ==
    LET gain == IF self.stage_gain # None
                THEN <<PoleZeroResponse(self.stage_gain[1].value, <<>>, <<>>)>>
                ELSE <<>>
    IN  IF Len(self.poles_zeros_list) = 1
        THEN LET pz == PolesZerosGetPyrockoResponse(self.poles_zeros_list[1])
             IN  IF pz.kind # "ok" THEN pz ELSE Ok(<<pz.value>> \o gain)
        ELSE Ok(gain)

(***************************************************************************)
(* Response.get_pyrocko_response: the stages in order (the first failure   *)
(* propagates), then the unit conversion if fake_input_units is given.     *)
(***************************************************************************)
RECURSIVE StagesLoop(_, _)
StagesLoop(stage_list, responses) ==
    IF stage_list = <<>> THEN Ok(responses)
    ELSE LET r == StageGetPyrockoResponse(Head(stage_list))
         IN  IF r.kind # "ok" THEN r
             ELSE StagesLoop(Tail(stage_list), responses \o r.value)

ConversionSwapped(fake_input_units, input_units) ==
    IF <<input_units, fake_input_units>> \in DOMAIN conversion
    THEN Ok(conversion[<<input_units, fake_input_units>>])
    ELSE Raise("NoResponseInformation")

Conversion(fake_input_units, input_units) ==
    IF <<fake_input_units, input_units>> \in DOMAIN conversion
    THEN Ok(conversion[<<fake_input_units, input_units>>])
    ELSE Raise("NoResponseInformation")

ResponseGetPyrockoResponse(self, fake_input_units) ==
    LET stages == StagesLoop(self.stage_list, <<>>)
    IN  IF stages.kind # "ok" THEN stages
        ELSE IF fake_input_units = None
        THEN Ok(MultiplyResponse(stages.value))
        ELSE IF self.instrument_sensitivity = None
        THEN Raise("AttributeError")
        ELSE IF self.instrument_sensitivity[1].input_units = None
        THEN Raise("NoResponseInformation")
        ELSE LET conresp ==
                    Conversion(fake_input_units[1],
                        self.instrument_sensitivity[1].input_units[1].name)
             IN  IF conresp.kind # "ok" THEN conresp
                 ELSE IF conresp.value # None
                 THEN Ok(MultiplyResponse(
                            Append(stages.value, conresp.value[1])))
                 ELSE Ok(MultiplyResponse(stages.value))

(***************************************************************************)
(* FDSNStationXML.get_pyrocko_response: the responses of the matching      *)
(* channels that have one are assembled in traversal order (the first      *)
(* failure propagates); then none is NoResponseInformation, several are    *)
(* MultipleResponseInformation.                                            *)
(***************************************************************************)
RECURSIVE RespsLoop(_, _, _, _)
RespsLoop(nl, ys, fake_input_units, resps) ==
    IF ys = <<>> THEN Ok(resps)
    ELSE LET resp == ChannelAt(nl, Head(ys)).response
         IN  IF resp = None
             THEN RespsLoop(nl, Tail(ys), fake_input_units, resps)
             ELSE LET r == ResponseGetPyrockoResponse(resp[1],
                                                      fake_input_units)
                  IN  IF r.kind # "ok" THEN r
                      ELSE RespsLoop(nl, Tail(ys), fake_input_units,
                                     Append(resps, r.value))

LookupFirstOfSeveral(nl, nslc, time, timespan, fake_input_units) ==
    LET ys == iter_network_station_channels(
                nl, Some(nslc[1]), Some(nslc[2]), Some(nslc[3]),
                Some(nslc[4]), time, timespan)
        resps == RespsLoop(nl, ys, fake_input_units, <<>>)
    IN  IF resps.kind # "ok" THEN resps
        ELSE IF resps.value = <<>> THEN Raise("NoResponseInformation")
        ELSE Ok(resps.value[1])

get_pyrocko_response(nl, nslc, time, timespan, fake_input_units) ==
    LET ys == iter_network_station_channels(
                nl, Some(nslc[1]), Some(nslc[2]), Some(nslc[3]),
                Some(nslc[4]), time, timespan)
        resps == RespsLoop(nl, ys, fake_input_units, <<>>)
    IN  IF resps.kind # "ok" THEN resps
        ELSE IF resps.value = <<>> THEN Raise("NoResponseInformation")
        ELSE IF Len(resps.value) > 1
        THEN Raise("MultipleResponseInformation")
        ELSE Ok(resps.value[1])

(***************************************************************************)
(* A pole or a zero (PoleZero.value() is real + 1j * imaginary).  Of the   *)
(* complex value the model keeps what the evaluation at the normalization  *)
(* frequency f of its stage depends on: distance is |2 pi j f - value()|,  *)
(* in hundredths.                                                          *)
(***************************************************************************)
PoleZero(distance) == [distance |-> distance]

PolesZerosOf(pz_transfer_function_type, normalization_factor, zero_list, pole_list) ==
    [pz_transfer_function_type |-> pz_transfer_function_type,
     normalization_factor |-> normalization_factor,
     zero_list |-> zero_list, pole_list |-> pole_list]

RECURSIVE Distances(_)
Distances(pzs) ==
    IF pzs = <<>> THEN 1 ELSE Head(pzs).distance * Distances(Tail(pzs))

(***************************************************************************)
(* abs(resp.evaluate([f])[0]) of a PoleZeroResponse at the normalization   *)
(* frequency: |constant| times the distances of the zeros over those of    *)
(* the poles, as the fraction num / den.                                   *)
(***************************************************************************)
EvaluateAbs(resp) ==
    [num |-> Abs(resp.constant) * Distances(resp.zeros)
                * 100 ^ Len(resp.poles),
     den |-> Distances(resp.poles) * 100 ^ Len(resp.zeros)]

(***************************************************************************)
(* PolesZeros.get_pyrocko_response, the check of the normalization factor: *)
(* perc > 2.0, where computed_normalization_factor is                      *)
(* normalization_factor / abs(evaluate) and perc is                        *)
(* abs(computed_normalization_factor / normalization_factor - 1.0) * 100.  *)
(* The divisions are numpy's: x / 0 is an infinity for x # 0, 0 / 0 is nan *)
(* and no comparison with nan holds.                                       *)
(***************************************************************************)
NormalizationExceedsOnly(self) ==
    LET nf == self.normalization_factor
        mag == EvaluateAbs(PoleZeroResponse(nf, self.zero_list,
                                            self.pole_list))
    IN  IF nf = 0 THEN FALSE
        ELSE IF mag.num = 0 /\ mag.den = 0 THEN FALSE
        ELSE IF mag.num = 0 THEN TRUE
        ELSE (nf * mag.den - nf * mag.num) * 100 > 2 * (nf * mag.num)

NormalizationDiffers(self) ==
    LET nf == self.normalization_factor
        mag == EvaluateAbs(PoleZeroResponse(nf, self.zero_list,
                                            self.pole_list))
    IN  IF nf = 0 THEN FALSE
        ELSE IF mag.num = 0 /\ mag.den = 0 THEN FALSE
        ELSE IF mag.num = 0 THEN TRUE
        ELSE Abs(nf * mag.den - nf * mag.num) * 100 > 2 * Abs(nf * mag.num)

PolesZerosLogged(self) ==
    IF self.pz_transfer_function_type # "LAPLACE (RADIANS/SECOND)" THEN <<>>
    ELSE IF NormalizationDiffers(self)
    THEN <<Warn("computed and reported normalization factors differ",
                [reported |-> self.normalization_factor,
                 zero_list |-> self.zero_list,
                 pole_list |-> self.pole_list])>>
    ELSE <<>>

(***************************************************************************)
(* The records logged by ResponseStage.get_pyrocko_response: those of its  *)
(* single poles/zeros description, or, of several descriptions, one record *)
(* for the stage and one for each description.                             *)
(***************************************************************************)
StageLogged(self, nslc) ==
    IF Len(self.poles_zeros_list) = 1
    THEN PolesZerosLogged(self.poles_zeros_list[1])
    ELSE IF Len(self.poles_zeros_list) > 1
    THEN <<Warn("multiple poles and zeros records in single response stage",
                nslc)>>
         \o [i \in 1..Len(self.poles_zeros_list) |->
                Warn("%s", self.poles_zeros_list[i])]
    ELSE <<>>

(***************************************************************************)
(* The records logged by Response.get_pyrocko_response and by              *)
(* FDSNStationXML.get_pyrocko_response: those of the stages, and of the    *)
(* responses, up to the first one that fails.                              *)
(***************************************************************************)
RECURSIVE StagesLogged(_, _)
StagesLogged(stage_list, nslc) ==
    IF stage_list = <<>> THEN <<>>
    ELSE StageLogged(Head(stage_list), nslc)
         \o (IF StageGetPyrockoResponse(Head(stage_list)).kind # "ok"
             THEN <<>>
             ELSE StagesLogged(Tail(stage_list), nslc))

ResponseLogged(self, nslc) == StagesLogged(self.stage_list, nslc)

RECURSIVE RespsLogged(_, _, _, _)
RespsLogged(nl, ys, nslc, fake_input_units) ==
    IF ys = <<>> THEN <<>>
    ELSE LET resp == ChannelAt(nl, Head(ys)).response
         IN  IF resp = None
             THEN RespsLogged(nl, Tail(ys), nslc, fake_input_units)
             ELSE ResponseLogged(resp[1], nslc)
                  \o (IF ResponseGetPyrockoResponse(
                            resp[1], fake_input_units).kind # "ok"
                      THEN <<>>
                      ELSE RespsLogged(nl, Tail(ys), nslc, fake_input_units))

get_pyrocko_response_logged(nl, nslc, time, timespan, fake_input_units) ==
    RespsLogged(nl,
                iter_network_station_channels(
                    nl, Some(nslc[1]), Some(nslc[2]), Some(nslc[3]),
                    Some(nslc[4]), time, timespan),
                nslc, fake_input_units)

NslcAt(nl, p) ==
    <<NetworkAt(nl, p).code, StationAt(nl, p).code,
      ChannelAt(nl, p).location_code, ChannelAt(nl, p).code>>

(***************************************************************************)
(* Inputs of the response assembly: one channel whose response has up to   *)
(* MaxStages stages.  A stage has no, one or two poles/zeros descriptions  *)
(* (of a supported or an unsupported type) or one of the descriptions that *)
(* are not converted, and a gain or none.                                  *)
(***************************************************************************)
MaxStages == 2

Laplace == PolesZeros("LAPLACE (RADIANS/SECOND)", 2)

Laplace2 == PolesZeros("LAPLACE (RADIANS/SECOND)", 5)

Hertz == PolesZeros("LAPLACE (HERTZ)", 2)

StageChoices ==
    {ResponseStage(pz, <<>>, None, None, None, gain) :
        pz \in {<<Laplace>>, <<Hertz>>, <<Laplace, Laplace2>>,
                <<Hertz, Laplace>>},
        gain \in {None, Some(Gain(3))}}
    \cup {ResponseStage(<<>>, o[1], o[2], o[3], o[4], gain) :
        o \in {<<<<>>, None, None, None>>,
               <<<<"Coefficients">>, None, None, None>>,
               <<<<>>, Some("ResponseList"), None, None>>,
               <<<<>>, None, Some("FIR"), None>>,
               <<<<>>, None, None, Some("Polynomial")>>},
        gain \in {None, Some(Gain(3))}}

SensitivityChoices ==
    {None, Some(Sensitivity(None))}
    \cup {Some(Sensitivity(Some(Units(u)))) : u \in {"M", "M/S", "COUNTS"}}

FakeInputUnits == {None} \cup {Some(u) : u \in {"M", "M/S", "M/S**2", "COUNTS"}}

ResponseChoices ==
    {Response(sens, stages) :
        sens \in SensitivityChoices,
        stages \in UNION {[1..n -> StageChoices] : n \in 0..MaxStages}}

ModelOfResponse(resp) ==
    <<Network("N1", None, None,
        <<Station("S1", None, None,
            <<Channel(HHZ, <<>>, None, None, Some(PyFloat(100 * Hz)),
                      Some(resp))>>)>>)>>

(***************************************************************************)
(* Specification of the response assembly.                                 *)
(***************************************************************************)
InitResponse ==
    /\ network_list \in {ModelOfResponse(resp) : resp \in ResponseChoices}
    /\ op = "idle"
    /\ args = <<>>
    /\ result = <<>>
    /\ logged = <<>>

CallStageGetPyrockoResponse ==
    \E p \in Range(AllPaths(network_list)) :
        \E i \in 1..Len(ChannelAt(network_list, p).response[1].stage_list) :
            LET stage == ChannelAt(network_list, p).response[1].stage_list[i]
            IN  /\ op = "idle"
                /\ op' = "ResponseStage.get_pyrocko_response"
                /\ args' = [self |-> stage, nslc |-> NslcAt(network_list, p)]
                /\ result' = StageGetPyrockoResponse(stage)
                /\ logged' = StageLogged(stage, NslcAt(network_list, p))
                /\ UNCHANGED network_list

CallResponseGetPyrockoResponse ==
    \E p \in Range(AllPaths(network_list)), fake \in FakeInputUnits :
        /\ op = "idle"
        /\ op' = "Response.get_pyrocko_response"
        /\ args' = [self |-> ChannelAt(network_list, p).response[1],
                    nslc |-> NslcAt(network_list, p),
                    fake_input_units |-> fake]
        /\ result' = ResponseGetPyrockoResponse(
                        ChannelAt(network_list, p).response[1], fake)
        /\ logged' = ResponseLogged(ChannelAt(network_list, p).response[1],
                                    NslcAt(network_list, p))
        /\ UNCHANGED network_list

NextResponse ==
    CallStageGetPyrockoResponse \/ CallResponseGetPyrockoResponse \/ Return

SpecResponse == InitResponse /\ [][NextResponse]_vars

(***************************************************************************)
(* The terms of a stage and of a unit conversion as the claims state them. *)
(***************************************************************************)
ClaimedStageTerms(stage) ==
    (IF Len(stage.poles_zeros_list) = 1
     THEN <<[type |-> "PoleZeroResponse",
             constant |-> stage.poles_zeros_list[1].normalization_factor,
             zeros |-> stage.poles_zeros_list[1].zero_list,
             poles |-> stage.poles_zeros_list[1].pole_list]>>
     ELSE <<>>)
    \o (IF stage.stage_gain # None
        THEN <<[type |-> "PoleZeroResponse",
                constant |-> stage.stage_gain[1].value,
                zeros |-> <<>>, poles |-> <<>>]>>
        ELSE <<>>)

Unsupported(stage) ==
    /\ Len(stage.poles_zeros_list) = 1
    /\ stage.poles_zeros_list[1].pz_transfer_function_type
         # "LAPLACE (RADIANS/SECOND)"

ClaimedStagesTerms(stage_list) ==
    Concat([i \in 1..Len(stage_list) |-> ClaimedStageTerms(stage_list[i])])

IsConversionTerm(t) ==
    t.type \in {"IntegrationResponse", "DifferentiationResponse"}

(***************************************************************************)
(* C9: a stage contributes, in this order, one pole-zero term iff it       *)
(* carries exactly one poles/zeros description, and one constant-gain term *)
(* iff it declares a gain; a stage with several poles/zeros descriptions   *)
(* contributes no transfer function and does not fail, the coefficient,    *)
(* FIR, polynomial and tabulated descriptions contribute nothing; within   *)
(* Response.get_pyrocko_response the contributions follow the declared     *)
(* stage order.  (The only stage that fails is one whose single            *)
(* poles/zeros description is of an unsupported type.)                     *)
(***************************************************************************)
C9_StageContributions ==
    /\ op = "ResponseStage.get_pyrocko_response" =>
        /\ result.kind = "ok" <=> ~Unsupported(args.self)
        /\ result.kind = "ok" => result.value = ClaimedStageTerms(args.self)
    /\ (op = "Response.get_pyrocko_response" /\ result.kind = "ok") =>
        LET terms == ClaimedStagesTerms(args.self.stage_list)
        IN  /\ Len(result.value.responses) >= Len(terms)
            /\ SubSeq(result.value.responses, 1, Len(terms)) = terms
    /\ (op = "Response.get_pyrocko_response"
        /\ args.fake_input_units = None) =>
        (result.kind = "ok" <=>
            \A i \in 1..Len(args.self.stage_list) :
                ~Unsupported(args.self.stage_list[i]))

C9_Witness ==
    /\ op = "Response.get_pyrocko_response"
    /\ result.kind = "ok"
    /\ Len(args.self.stage_list) = 2
    /\ Len(args.self.stage_list[1].poles_zeros_list) = 2
    /\ args.self.stage_list[1].stage_gain # None
    /\ Len(args.self.stage_list[2].poles_zeros_list) = 1
    /\ args.self.stage_list[2].stage_gain # None
    /\ Len(result.value.responses) = 3

(***************************************************************************)
(* C10: the composite response of a channel is the concatenation of the    *)
(* terms of all its stages in declared stage order, followed last by at    *)
(* most one unit-conversion term (none without an input-unit override);    *)
(* with the override 'M/S', the documented input unit 'M' and no stages it *)
(* consists of exactly one integration term of order 1.                    *)
(***************************************************************************)
C10_CompositeIsConcatenation ==
    (op = "Response.get_pyrocko_response" /\ result.kind = "ok") =>
        LET terms == ClaimedStagesTerms(args.self.stage_list)
            rs == result.value.responses
        IN  /\ result.value.type = "MultiplyResponse"
            /\ \/ rs = terms
               \/ /\ args.fake_input_units # None
                  /\ Len(rs) = Len(terms) + 1
                  /\ SubSeq(rs, 1, Len(terms)) = terms
                  /\ IsConversionTerm(rs[Len(rs)])
            /\ ( /\ args.fake_input_units = Some("M/S")
                 /\ args.self.instrument_sensitivity # None
                 /\ args.self.instrument_sensitivity[1].input_units
                      = Some([name |-> "M"])
                 /\ args.self.stage_list = <<>> )
               => rs = <<[type |-> "IntegrationResponse", n |-> 1]>>

C10_Witness ==
    /\ op = "Response.get_pyrocko_response"
    /\ result.kind = "ok"
    /\ args.fake_input_units = Some("M/S")
    /\ args.self.instrument_sensitivity[1].input_units = Some([name |-> "M"])
    /\ args.self.stage_list = <<>>
    /\ result.value.responses = <<[type |-> "IntegrationResponse", n |-> 1]>>

(***************************************************************************)
(* Inputs of the response lookup: one station with up to MaxEpochs         *)
(* channel epochs; an epoch has no response, a response that assembles, or *)
(* one that does not (unsupported poles/zeros type, no instrument          *)
(* sensitivity, an input unit outside the conversion table).               *)
(***************************************************************************)
MaxEpochs == 2

LookupResponses ==
    {None,
     Some(Response(Some(Sensitivity(Some(Units("M")))),
            <<ResponseStage(<<Laplace>>, <<>>, None, None, None,
                            Some(Gain(3)))>>)),
     Some(Response(Some(Sensitivity(Some(Units("M/S")))),
            <<ResponseStage(<<>>, <<>>, None, None, None, Some(Gain(3)))>>)),
     Some(Response(Some(Sensitivity(Some(Units("M")))),
            <<ResponseStage(<<Hertz>>, <<>>, None, None, None, None)>>)),
     Some(Response(None, <<>>)),
     Some(Response(Some(Sensitivity(Some(Units("COUNTS")))), <<>>))}

LookupSpans == {<<None, None>>, <<Some(0), Some(0)>>, <<Some(1), None>>}

LookupChannels ==
    {Channel(code, <<>>, se[1], se[2], Some(PyFloat(100 * Hz)), resp) :
        code \in {HHZ, LHZ}, se \in LookupSpans, resp \in LookupResponses}

ModelOfEpochs(channel_list) ==
    <<Network("N1", None, None,
        <<Station("S1", None, None, channel_list)>>)>>

InitLookup ==
    /\ network_list \in
         {ModelOfEpochs(cl) :
            cl \in UNION {[1..n -> LookupChannels] : n \in 1..MaxEpochs}}
    /\ op = "idle"
    /\ args = <<>>
    /\ result = <<>>
    /\ logged = <<>>

GetPyrockoResponse ==
    \E sta \in {"S1", "S2"}, loc \in {<<>>, <<" ">>},
       time \in {None, Some(0), Some(1)},
       fake \in {None, Some("M/S")} :
        /\ op = "idle"
        /\ op' = "get_pyrocko_response"
        /\ args' = [nslc |-> <<"N1", sta, loc, HHZ>>, time |-> time,
                    timespan |-> None, fake_input_units |-> fake]
        /\ result' = get_pyrocko_response(
                        network_list, <<"N1", sta, loc, HHZ>>, time, None,
                        fake)
        /\ logged' = get_pyrocko_response_logged(
                        network_list, <<"N1", sta, loc, HHZ>>, time, None,
                        fake)
        /\ UNCHANGED network_list

NextLookup == GetPyrockoResponse \/ Return

SpecLookup == InitLookup /\ [][NextLookup]_vars

(***************************************************************************)
(* The matching channels that carry a Response, and whether and how the    *)
(* assembly of a response fails, as the claims state them.                 *)
(***************************************************************************)
Matching(nl, a) ==
    {p \in ClaimedYielded(nl,
                [net |-> Some(a.nslc[1]), sta |-> Some(a.nslc[2]),
                 loc |-> Some(a.nslc[3]), cha |-> Some(a.nslc[4]),
                 time |-> a.time, timespan |-> a.timespan]) :
        ChannelAt(nl, p).response # None}

ClaimedConversionTerms(resp, fake) ==
    IF fake = None THEN <<>>
    ELSE LET u == resp.instrument_sensitivity[1].input_units[1].name
         IN  CASE <<fake[1], u>> = <<"M", "M/S">> ->
                    <<[type |-> "DifferentiationResponse", n |-> 1]>>
               [] <<fake[1], u>> = <<"M/S", "M">> ->
                    <<[type |-> "IntegrationResponse", n |-> 1]>>
               [] <<fake[1], u>> = <<"M/S**2", "M">> ->
                    <<[type |-> "IntegrationResponse", n |-> 2]>>
               [] <<fake[1], u>> = <<"M", "M/S**2">> ->
                    <<[type |-> "DifferentiationResponse", n |-> 2]>>
               [] <<fake[1], u>> = <<"M/S", "M/S**2">> ->
                    <<[type |-> "DifferentiationResponse", n |-> 1]>>
               [] <<fake[1], u>> = <<"M/S**2", "M/S">> ->
                    <<[type |-> "IntegrationResponse", n |-> 1]>>
               [] OTHER -> <<>>

ClaimedFailure(resp, fake) ==
    IF \E i \in 1..Len(resp.stage_list) : Unsupported(resp.stage_list[i])
    THEN "NoResponseInformation"
    ELSE IF fake = None THEN "none"
    ELSE IF resp.instrument_sensitivity = None THEN "AttributeError"
    ELSE IF resp.instrument_sensitivity[1].input_units = None
    THEN "NoResponseInformation"
    ELSE IF resp.instrument_sensitivity[1].input_units[1].name
              \notin {"M", "M/S", "M/S**2"}
            \/ fake[1] \notin {"M", "M/S", "M/S**2"}
    THEN "NoResponseInformation"
    ELSE "none"

(***************************************************************************)
(* C2 as stated: the outcome of get_pyrocko_response for an identity and a  *)
(* time filter (no input-unit override) is decided by the number of        *)
(* matching channels that carry a Response alone: the composite response   *)
(* of the only one, NoResponseInformation for none,                        *)
(* MultipleResponseInformation for more than one, whatever the responses   *)
(* contain.                                                                *)
(***************************************************************************)
C2_OutcomeByCountAlone ==
    (op = "get_pyrocko_response" /\ args.fake_input_units = None) =>
        LET n == Cardinality(Matching(network_list, args))
        IN  /\ n = 1 => result.kind = "ok"
            /\ n = 0 => result.kind = "NoResponseInformation"
            /\ n > 1 => result.kind = "MultipleResponseInformation"

(***************************************************************************)
(* C2, amended: get_pyrocko_response first assembles the composite         *)
(* response of every matching channel that carries a Response, in          *)
(* traversal order; if an assembly fails, the first such failure is the    *)
(* outcome, also when several channels match.  Otherwise the number of     *)
(* matching channels that carry a Response decides: the composite response *)
(* of the only one, NoResponseInformation for none,                        *)
(* MultipleResponseInformation for more than one.  One of several matching *)
(* responses is never returned.                                            *)
(***************************************************************************)
C2_LookupOutcome ==
    op = "get_pyrocko_response" =>
        LET M == Matching(network_list, args)
            Resp(p) == ChannelAt(network_list, p).response[1]
            failing == {p \in M :
                ClaimedFailure(Resp(p), args.fake_input_units) # "none"}
        IN  /\ failing # {} =>
                \E p \in failing :
                    /\ \A q \in failing : q = p \/ PathLess(p, q)
                    /\ result.kind =
                         ClaimedFailure(Resp(p), args.fake_input_units)
            /\ (failing = {} /\ M = {}) =>
                 result.kind = "NoResponseInformation"
            /\ (failing = {} /\ Cardinality(M) > 1) =>
                 result.kind = "MultipleResponseInformation"
            /\ (failing = {} /\ Cardinality(M) = 1) =>
                 \E p \in M :
                    /\ result.kind = "ok"
                    /\ result.value.type = "MultiplyResponse"
                    /\ result.value.responses =
                         ClaimedStagesTerms(Resp(p).stage_list)
                         \o ClaimedConversionTerms(Resp(p),
                                                   args.fake_input_units)
            /\ result.kind = "ok" => Cardinality(M) = 1

C2_Witness ==
    /\ op = "get_pyrocko_response"
    /\ Cardinality(Matching(network_list, args)) = 2
    /\ args.fake_input_units = None
    /\ result.kind = "NoResponseInformation"

(***************************************************************************)
(* C11: response assembly fails with NoResponseInformation, and with no    *)
(* other kind of failure, when a stage's single poles/zeros description is *)
(* of a type other than 'LAPLACE (RADIANS/SECOND)', when an override is    *)
(* requested and the pair (override, documented input unit) is not in the  *)
(* conversion table, and when an override is requested and the response    *)
(* documents no input unit.                                                *)
(***************************************************************************)
DocumentsInputUnit(resp) ==
    /\ resp.instrument_sensitivity # None
    /\ resp.instrument_sensitivity[1].input_units # None

TableUnits == {"M", "M/S", "M/S**2"}

C11_FailsWithNoResponseInformation ==
    op = "Response.get_pyrocko_response" =>
        LET resp == args.self
            fake == args.fake_input_units
            unsupported ==
                \E i \in 1..Len(resp.stage_list) :
                    Unsupported(resp.stage_list[i])
            unmapped ==
                /\ fake # None
                /\ DocumentsInputUnit(resp)
                /\ \/ fake[1] \notin TableUnits
                   \/ resp.instrument_sensitivity[1].input_units[1].name
                        \notin TableUnits
            undocumented == fake # None /\ ~DocumentsInputUnit(resp)
        IN  /\ (unsupported \/ unmapped \/ undocumented) =>
                 result.kind = "NoResponseInformation"
            /\ result.kind \in {"ok", "NoResponseInformation"}

(***************************************************************************)
(* C12: when the requested input-unit override equals the documented input *)
(* unit of the response, whatever that unit is, the assembly succeeds and  *)
(* appends no conversion term (the composite is the one obtained without   *)
(* override: the terms of the stages); a conversion term is appended only  *)
(* when the two units differ.  Stated for responses all of whose stages    *)
(* can be converted.                                                       *)
(***************************************************************************)
C12_AnySameUnitNoConversion ==
    (/\ op = "Response.get_pyrocko_response"
     /\ args.fake_input_units # None
     /\ DocumentsInputUnit(args.self)
     /\ \A i \in 1..Len(args.self.stage_list) :
            ~Unsupported(args.self.stage_list[i])) =>
        LET unit == args.self.instrument_sensitivity[1].input_units[1].name
            terms == ClaimedStagesTerms(args.self.stage_list)
        IN  /\ args.fake_input_units[1] = unit =>
                /\ result.kind = "ok"
                /\ result.value.responses = terms
            /\ (result.kind = "ok" /\ result.value.responses # terms) =>
                args.fake_input_units[1] # unit

(***************************************************************************)
(* C12, amended: when the requested input-unit override equals the         *)
(* documented input unit and that unit is one of 'M', 'M/S', 'M/S**2', the *)
(* assembly of a response whose stages can be converted succeeds and       *)
(* appends no conversion term, so the composite is the one obtained        *)
(* without override; when the common unit is any other unit the pair is    *)
(* not in the conversion table and the assembly fails with                 *)
(* NoResponseInformation; a conversion term is appended only when the two  *)
(* units differ.                                                           *)
(***************************************************************************)
C12_SameTableUnitNoConversion ==
    (/\ op = "Response.get_pyrocko_response"
     /\ args.fake_input_units # None
     /\ DocumentsInputUnit(args.self)
     /\ \A i \in 1..Len(args.self.stage_list) :
            ~Unsupported(args.self.stage_list[i])) =>
        LET unit == args.self.instrument_sensitivity[1].input_units[1].name
            terms == ClaimedStagesTerms(args.self.stage_list)
        IN  /\ (args.fake_input_units[1] = unit /\ unit \in TableUnits) =>
                /\ result.kind = "ok"
                /\ result.value.responses = terms
            /\ (args.fake_input_units[1] = unit /\ unit \notin TableUnits) =>
                result.kind = "NoResponseInformation"
            /\ (result.kind = "ok" /\ result.value.responses # terms) =>
                args.fake_input_units[1] # unit

C12_Witness ==
    /\ op = "Response.get_pyrocko_response"
    /\ args.fake_input_units = Some("M/S")
    /\ DocumentsInputUnit(args.self)
    /\ args.self.instrument_sensitivity[1].input_units[1].name = "M/S"
    /\ Len(args.self.stage_list) = 2
    /\ result.kind = "ok"
    /\ Len(result.value.responses) = 3
    /\ result.value.responses = ClaimedStagesTerms(args.self.stage_list)

(***************************************************************************)
(* Specification of the conversion table: the lookups of                    *)
(* Response.get_pyrocko_response for the pairs made of three units.        *)
(***************************************************************************)
ConversionUnits == {"M", "M/S", "M/S**2", "COUNTS", "PA"}

InitConversion ==
    /\ network_list = <<>>
    /\ op = "idle"
    /\ args = <<>>
    /\ result = <<>>
    /\ logged = <<>>

LookupConversions ==
    \E a \in ConversionUnits, b \in ConversionUnits, c \in ConversionUnits :
        /\ op = "idle"
        /\ op' = "conversion"
        /\ args' = [a |-> a, b |-> b, c |-> c]
        /\ result' = [ab |-> Conversion(a, b), ba |-> Conversion(b, a),
                      bc |-> Conversion(b, c), ac |-> Conversion(a, c)]
        /\ logged' = <<>>
        /\ UNCHANGED network_list

NextConversion == LookupConversions \/ Return

SpecConversion == InitConversion /\ [][NextConversion]_vars

(***************************************************************************)
(* The order of a conversion term: the number of integrations it stands    *)
(* for (a differentiation counts negative, no term is order 0).            *)
(***************************************************************************)
ClaimedOrder(conresp) ==
    IF conresp = None THEN 0
    ELSE IF conresp[1].type = "IntegrationResponse" THEN conresp[1].n
    ELSE -conresp[1].n

(***************************************************************************)
(* C13: for all units a, b among 'M', 'M/S', 'M/S**2' the terms for (a, b) *)
(* and (b, a) are an integration and a differentiation of the same order,  *)
(* or both the identity, so that they compose to the identity; for all a,  *)
(* b, c the net order of (a, b) followed by (b, c) is the order of (a, c). *)
(***************************************************************************)
C13_ConversionRoundTrip ==
    (op = "conversion" /\ {args.a, args.b, args.c} \subseteq TableUnits) =>
        /\ \A k \in {"ab", "ba", "bc", "ac"} : result[k].kind = "ok"
        /\ ClaimedOrder(result.ab.value) + ClaimedOrder(result.ba.value) = 0
        /\ (result.ab.value = None) <=> (result.ba.value = None)
        /\ result.ab.value # None =>
             /\ result.ab.value[1].type # result.ba.value[1].type
             /\ result.ab.value[1].n = result.ba.value[1].n
             /\ result.ab.value[1].n > 0
        /\ ClaimedOrder(result.ab.value) + ClaimedOrder(result.bc.value)
             = ClaimedOrder(result.ac.value)

C13_Witness ==
    /\ op = "conversion"
    /\ args = [a |-> "M/S**2", b |-> "M", c |-> "M/S"]
    /\ result.ab = Ok(Some([type |-> "IntegrationResponse", n |-> 2]))
    /\ result.ba = Ok(Some([type |-> "DifferentiationResponse", n |-> 2]))
    /\ result.bc = Ok(Some([type |-> "DifferentiationResponse", n |-> 1]))
    /\ result.ac = Ok(Some([type |-> "IntegrationResponse", n |-> 1]))

(***************************************************************************)
(* C14: selection is deterministic: every run of choose_channels on the    *)
(* same model with the same configuration and time filter returns the same *)
(* mapping from (network, station, location, channel) to Channel, also     *)
(* when a bucket holds several channels with the same channel code.        *)
(***************************************************************************)
C14_SelectionDeterministic ==
    (op = "choose_channels" /\ result.kind = "ok") =>
        \A other \in choose_channels(network_list, args) :
            /\ other.kind = "ok"
            /\ DOMAIN other.value = DOMAIN result.value
            /\ \A key \in DOMAIN result.value :
                 ChannelAt(network_list, other.value[key])
                    = ChannelAt(network_list, result.value[key])

(***************************************************************************)
(* Position values: Python floats, kept as a kind (finite, nan, inf, -inf) *)
(* and, for a finite value, an exact fraction num/den.                     *)
(***************************************************************************)
Finite(n) == [kind |-> "finite", num |-> n, den |-> 1]

NaN == [kind |-> "nan", num |-> 0, den |-> 1]

Inf == [kind |-> "inf", num |-> 0, den |-> 1]

NegInf == [kind |-> "-inf", num |-> 0, den |-> 1]

FloatWithUnit(value) == [value |-> value]

(***************************************************************************)
(* A channel and a station with the position fields of their classes.      *)
(***************************************************************************)
PositionedChannel(code, location_code, latitude, longitude, elevation, depth) ==
    Channel(code, location_code, None, None, None, None)
    @@ [latitude |-> latitude, longitude |-> longitude,
        elevation |-> elevation, depth |-> depth,
        azimuth |-> None, dip |-> None]

PositionedStation(code, channel_list, latitude, longitude, elevation, description) ==
    Station(code, None, None, channel_list)
    @@ [latitude |-> latitude, longitude |-> longitude,
        elevation |-> elevation, description |-> description]

value_or_none(x) == IF x # None THEN Some(x[1].value) ELSE None

position_values(self) ==
    <<self.latitude.value, self.longitude.value,
      value_or_none(self.elevation), value_or_none(self.depth)>>

(***************************************************************************)
(* pos == x.position_values: the tuples are compared element by element,   *)
(* an element that is the same object counts as equal (so the first        *)
(* channel always equals itself); two float objects are compared by value, *)
(* where nan differs from every value.                                     *)
(***************************************************************************)
FloatEq(x, y) == x.kind # "nan" /\ x = y

OptFloatEq(u, v) ==
    IF u = None \/ v = None THEN u = v ELSE FloatEq(u[1], v[1])

PositionEq(i, pos, other) ==
    \/ i = 1
    \/ /\ FloatEq(pos[1], other[1])
       /\ FloatEq(pos[2], other[2])
       /\ OptFloatEq(pos[3], other[3])
       /\ OptFloatEq(pos[4], other[4])

(***************************************************************************)
(* num.array(..., dtype=num.float): None becomes nan.  num.nansum: nan     *)
(* counts as zero, inf and -inf are summed.  num.isfinite: neither nan nor *)
(* an infinity.  The quotient of the two, element by element.              *)
(***************************************************************************)
ArrayColumn(channels, k) ==
    [i \in 1..Len(channels) |->
        LET v == position_values(channels[i])[k]
        IN  IF k \in {1, 2} THEN v
            ELSE IF v = None THEN NaN ELSE v[1]]

RECURSIVE SumFinite(_)
SumFinite(col) ==
    IF col = <<>> THEN 0
    ELSE (IF Head(col).kind = "finite" THEN Head(col).num ELSE 0)
         + SumFinite(Tail(col))

NanSum(col) ==
    LET kinds == {col[i].kind : i \in 1..Len(col)}
    IN  IF {"inf", "-inf"} \subseteq kinds THEN NaN
        ELSE IF "inf" \in kinds THEN Inf
        ELSE IF "-inf" \in kinds THEN NegInf
        ELSE Finite(SumFinite(col))

CountFinite(col) ==
    Cardinality({i \in 1..Len(col) : col[i].kind = "finite"})

Quotient(s, c) ==
    IF s.kind # "finite" THEN s
    ELSE IF c = 0 THEN NaN
    ELSE [kind |-> "finite", num |-> s.num, den |-> c]

(***************************************************************************)
(* pyrocko_station_from_channels(nsl, channels, inconsistencies='warn').   *)
(***************************************************************************)
pyrocko_station_from_channels(nsl, channels, inconsistencies) ==
    LET pos == position_values(channels[1])
        consistent ==
            \A i \in 1..Len(channels) :
                PositionEq(i, pos, position_values(channels[i]))
        Mean(k) == Quotient(NanSum(ArrayColumn(channels, k)),
                            CountFinite(ArrayColumn(channels, k)))
        pchannels ==
            [i \in 1..Len(channels) |->
                [name |-> channels[i].code,
                 azimuth |-> value_or_none(channels[i].azimuth),
                 dip |-> value_or_none(channels[i].dip)]]
    IN  IF ~consistent /\ inconsistencies = "raise"
        THEN Raise("InconsistentChannelLocations")
        ELSE Ok([network |-> nsl[1], station |-> nsl[2],
                 location |-> nsl[3],
                 lat |-> Mean(1), lon |-> Mean(2),
                 elevation |-> Mean(3), depth |-> Mean(4),
                 channels |-> pchannels])

(***************************************************************************)
(* FDSNStationXML.get_pyrocko_stations: per spanning station, one station  *)
(* per stripped location code (in sorted order) built from the spanning    *)
(* channels that are in nslcs, or one station from the station's own       *)
(* position if it has no channels.  The first failure propagates.          *)
(***************************************************************************)
SortedLocs(S) ==
    CHOOSE s \in [1..Cardinality(S) -> S] :
        /\ Range(s) = S
        /\ \A i, j \in 1..Cardinality(S) : i < j => StrLess(s[i], s[j])

StationsOfStationAllEpochs(nl, ni, si, nslcs, tt, inconsistencies) ==
    LET network == nl[ni]
        station == network.station_list[si]
        spanning ==
            station.channel_list
        locs == SortedLocs({Strip(spanning[i].location_code) :
                                i \in 1..Len(spanning)})
        ChannelsOf(loc) ==
            SelectSeq(spanning,
                LAMBDA c :
                    /\ Strip(c.location_code) = loc
                    /\ nslcs # None =>
                         <<network.code, station.code, loc, c.code>>
                            \in nslcs[1])
    IN  IF station.channel_list # <<>>
        THEN Concat([i \in 1..Len(locs) |->
                IF ChannelsOf(locs[i]) = <<>> THEN <<>>
                ELSE <<pyrocko_station_from_channels(
                            <<network.code, station.code, locs[i]>>,
                            ChannelsOf(locs[i]), inconsistencies)>>])
        ELSE <<Ok([network |-> network.code, station |-> station.code,
                   location |-> <<"*">>,
                   lat |-> station.latitude.value,
                   lon |-> station.longitude.value,
                   elevation |-> value_or_none(station.elevation),
                   name |-> IF station.description # None
                            THEN station.description[1] ELSE ""])>>

StationsOfStation(nl, ni, si, nslcs, tt, inconsistencies) ==
    LET network == nl[ni]
        station == network.station_list[si]
        spanning ==
            SelectSeq(station.channel_list,
                      LAMBDA c : spans(c, tt))
        locs == SortedLocs({Strip(spanning[i].location_code) :
                                i \in 1..Len(spanning)})
        ChannelsOf(loc) ==
            SelectSeq(spanning,
                LAMBDA c :
                    /\ Strip(c.location_code) = loc
                    /\ nslcs # None =>
                         <<network.code, station.code, loc, c.code>>
                            \in nslcs[1])
    IN  IF station.channel_list # <<>>
        THEN Concat([i \in 1..Len(locs) |->
                IF ChannelsOf(locs[i]) = <<>> THEN <<>>
                ELSE <<pyrocko_station_from_channels(
                            <<network.code, station.code, locs[i]>>,
                            ChannelsOf(locs[i]), inconsistencies)>>])
        ELSE <<Ok([network |-> network.code, station |-> station.code,
                   location |-> <<"*">>,
                   lat |-> station.latitude.value,
                   lon |-> station.longitude.value,
                   elevation |-> value_or_none(station.elevation),
                   name |-> IF station.description # None
                            THEN station.description[1] ELSE ""])>>

get_pyrocko_stations(nl, nslcs, time, timespan, inconsistencies) ==
    IF inconsistencies \notin {"raise", "warn"} THEN Raise("AssertionError")
    ELSE
    LET tt == TimeArgs(time, timespan)
        outcomes ==
            Concat([ni \in 1..Len(nl) |->
                IF ~spans(nl[ni], tt) THEN <<>>
                ELSE Concat([si \in 1..Len(nl[ni].station_list) |->
                    IF ~spans(nl[ni].station_list[si], tt) THEN <<>>
                    ELSE StationsOfStation(nl, ni, si, nslcs, tt,
                                           inconsistencies)])])
        failed == {i \in 1..Len(outcomes) : outcomes[i].kind # "ok"}
    IN  IF failed # {}
        THEN outcomes[CHOOSE i \in failed : \A j \in failed : i <= j]
        ELSE Ok([i \in 1..Len(outcomes) |-> outcomes[i].value])

(***************************************************************************)
(* The records logged by pyrocko_station_from_channels (two, if the        *)
(* positions differ and inconsistencies is 'warn') and by                  *)
(* get_pyrocko_stations (those of its stations, in order).                 *)
(***************************************************************************)
pyrocko_station_from_channels_logged(nsl, channels, inconsistencies) ==
    IF /\ \E i \in 1..Len(channels) :
            ~PositionEq(i, position_values(channels[1]),
                        position_values(channels[i]))
       /\ inconsistencies = "warn"
    THEN <<Warn("encountered inconsistencies in channel lat/lon/elevation/depth",
                [nsl |-> nsl,
                 info |-> [i \in 1..Len(channels) |->
                            <<channels[i].code,
                              position_values(channels[i])>>]]),
           Warn(" -> using mean values", <<>>)>>
    ELSE <<>>

StationsOfStationLogged(nl, ni, si, nslcs, tt, inconsistencies) ==
    LET network == nl[ni]
        station == network.station_list[si]
        spanning ==
            SelectSeq(station.channel_list,
                      LAMBDA c : spans(c, tt))
        locs == SortedLocs({Strip(spanning[i].location_code) :
                                i \in 1..Len(spanning)})
        ChannelsOf(loc) ==
            SelectSeq(spanning,
                LAMBDA c :
                    /\ Strip(c.location_code) = loc
                    /\ nslcs # None =>
                         <<network.code, station.code, loc, c.code>>
                            \in nslcs[1])
    IN  Concat([i \in 1..Len(locs) |->
            IF ChannelsOf(locs[i]) = <<>> THEN <<>>
            ELSE pyrocko_station_from_channels_logged(
                    <<network.code, station.code, locs[i]>>,
                    ChannelsOf(locs[i]), inconsistencies)])

get_pyrocko_stations_logged(nl, nslcs, time, timespan, inconsistencies) ==
    IF inconsistencies \notin {"raise", "warn"} THEN <<>>
    ELSE
    LET tt == TimeArgs(time, timespan)
    IN  Concat([ni \in 1..Len(nl) |->
            IF ~spans(nl[ni], tt) THEN <<>>
            ELSE Concat([si \in 1..Len(nl[ni].station_list) |->
                IF ~spans(nl[ni].station_list[si], tt) THEN <<>>
                ELSE StationsOfStationLogged(nl, ni, si, nslcs, tt,
                                             inconsistencies)])])

(***************************************************************************)
(* Inputs of the station queries: station N1.S1 with up to                 *)
(* MaxStationChannels channels that differ from a base channel ('HHZ',     *)
(* location '', position 10, 5, 100, 0) in at most one of code, location   *)
(* and one position field, and station N1.S2 without channels.             *)
(***************************************************************************)
MaxStationChannels == 2

StationChannels ==
    {PositionedChannel(v[1], v[2], FloatWithUnit(v[3]),
                       FloatWithUnit(Finite(5)), v[4], v[5]) :
        v \in {x \in {HHZ, HHN} \X {<<>>, <<" ">>, <<"0", "0">>}
                    \X {Finite(10), Finite(20), Finite(13), NaN, Inf, NegInf}
                    \X {Some(FloatWithUnit(Finite(100))),
                        Some(FloatWithUnit(Finite(200))), None}
                    \X {Some(FloatWithUnit(Finite(0))),
                        Some(FloatWithUnit(NaN))} :
                Cardinality({k \in 1..5 :
                    x[k] # <<HHZ, <<>>, Finite(10),
                             Some(FloatWithUnit(Finite(100))),
                             Some(FloatWithUnit(Finite(0)))>>[k]}) <= 1}}

ModelOfStation(channel_list) ==
    <<Network("N1", None, None,
        <<PositionedStation("S1", channel_list, FloatWithUnit(Finite(10)),
                            FloatWithUnit(Finite(5)),
                            Some(FloatWithUnit(Finite(100))), None),
          PositionedStation("S2", <<>>, FloatWithUnit(Finite(20)),
                            FloatWithUnit(Finite(5)), None,
                            Some("a station"))>>)>>

InitStations ==
    /\ network_list \in
         {ModelOfStation(cl) :
            cl \in UNION {[1..n -> StationChannels] :
                            n \in 0..MaxStationChannels}}
    /\ op = "idle"
    /\ args = <<>>
    /\ result = <<>>
    /\ logged = <<>>

PyrockoStationFromChannels ==
    \E ni \in 1..Len(network_list) :
      \E si \in 1..Len(network_list[ni].station_list) :
        \E inconsistencies \in {"raise", "warn"} :
            LET channels == network_list[ni].station_list[si].channel_list
                nsl == <<network_list[ni].code,
                         network_list[ni].station_list[si].code, <<>>>>
            IN  /\ op = "idle"
                /\ channels # <<>>
                /\ op' = "pyrocko_station_from_channels"
                /\ args' = [nsl |-> nsl, channels |-> channels,
                            inconsistencies |-> inconsistencies]
                /\ result' = pyrocko_station_from_channels(
                                nsl, channels, inconsistencies)
                /\ logged' = pyrocko_station_from_channels_logged(
                                nsl, channels, inconsistencies)
                /\ UNCHANGED network_list

GetPyrockoStations ==
    \E nslcs \in {None, Some({<<"N1", "S1", <<>>, HHZ>>})},
       time \in {None, Some(0)},
       inconsistencies \in {"raise", "warn", "ignore"} :
        /\ op = "idle"
        /\ op' = "get_pyrocko_stations"
        /\ args' = [nslcs |-> nslcs, time |-> time, timespan |-> None,
                    inconsistencies |-> inconsistencies]
        /\ result' = get_pyrocko_stations(network_list, nslcs, time, None,
                                          inconsistencies)
        /\ logged' = get_pyrocko_stations_logged(network_list, nslcs, time,
                                                 None, inconsistencies)
        /\ UNCHANGED network_list

NextStations == PyrockoStationFromChannels \/ GetPyrockoStations \/ Return

SpecStations == InitStations /\ [][NextStations]_vars

(***************************************************************************)
(* The fields of the positions of a channel list as the claim reads them:  *)
(* field k of channel i is a finite number or it is not.                   *)
(***************************************************************************)
ClaimedField(channel, k) ==
    LET f == <<Some(channel.latitude), Some(channel.longitude),
               channel.elevation, channel.depth>>[k]
    IN  IF f = None THEN NaN ELSE f[1].value

ClaimedFiniteSum(channels, k) ==
    LET fin == {i \in 1..Len(channels) :
                    ClaimedField(channels[i], k).kind = "finite"}
        RECURSIVE SumOver(_)
        SumOver(S) ==
            IF S = {} THEN 0
            ELSE LET i == CHOOSE x \in S : TRUE
                 IN  ClaimedField(channels[i], k).num + SumOver(S \ {i})
    IN  [sum |-> SumOver(fin), count |-> Cardinality(fin)]

ClaimedPositionsAgree(channels) ==
    \A i \in 1..Len(channels), k \in 1..4 :
        ClaimedField(channels[i], k) = ClaimedField(channels[1], k)

ResultField(station, k) ==
    <<station.lat, station.lon, station.elevation, station.depth>>[k]

(***************************************************************************)
(* C16: when the channels disagree on position,                            *)
(* pyrocko_station_from_channels fails with InconsistentChannelLocations   *)
(* in mode 'raise' and in mode 'warn' returns a station whose each         *)
(* position field is the sum of the finite values of that field divided by *)
(* the number of finite values; when all positions agree (four finite      *)
(* numbers) both modes return the common position.                         *)
(***************************************************************************)
C16_InconsistentPositions ==
    op = "pyrocko_station_from_channels" =>
        LET channels == args.channels
            agree == ClaimedPositionsAgree(channels)
        IN  /\ (~agree /\ args.inconsistencies = "raise") =>
                 result.kind = "InconsistentChannelLocations"
            /\ (~agree /\ args.inconsistencies = "warn") =>
                 /\ result.kind = "ok"
                 /\ \A k \in 1..4 :
                      LET m == ClaimedFiniteSum(channels, k)
                          r == ResultField(result.value, k)
                      IN  m.count > 0 =>
                            /\ r.kind = "finite"
                            /\ r.num * m.count = m.sum * r.den
            /\ (agree /\ \A k \in 1..4 :
                            ClaimedField(channels[1], k).kind = "finite") =>
                 /\ result.kind = "ok"
                 /\ \A k \in 1..4 :
                      LET r == ResultField(result.value, k)
                      IN  /\ r.kind = "finite"
                          /\ r.num = ClaimedField(channels[1], k).num * r.den

(***************************************************************************)
(* Inputs of the mixed queries: station N1.S1 with up to MaxQueryChannels  *)
(* channels that differ from a base channel in at most one of location     *)
(* code, sample rate, response, latitude and start date, and station N1.S2 *)
(* without channels.                                                       *)
(***************************************************************************)
MaxQueryChannels == 2

BaseChannel ==
    [PositionedChannel(HHZ, <<>>, FloatWithUnit(Finite(10)),
                       FloatWithUnit(Finite(5)),
                       Some(FloatWithUnit(Finite(100))),
                       Some(FloatWithUnit(Finite(0))))
        EXCEPT !.sample_rate = Some(PyFloat(100 * Hz)),
               !.response = WithUnit("M/S")]

QueryChannels ==
    {BaseChannel,
     [BaseChannel EXCEPT !.location_code = <<" ">>],
     [BaseChannel EXCEPT !.sample_rate = Some(PyFloat(50 * Hz))],
     [BaseChannel EXCEPT !.response = None],
     [BaseChannel EXCEPT !.response = Some(Response(None, <<>>))],
     [BaseChannel EXCEPT !.response =
        Some(Response(Some(Sensitivity(Some(Units("M/S")))),
               <<ResponseStage(<<Hertz>>, <<>>, None, None, None, None)>>))],
     [BaseChannel EXCEPT !.latitude = FloatWithUnit(Finite(20))],
     [BaseChannel EXCEPT !.start_date = Some(1)]}

InitQueries ==
    /\ network_list \in
         {ModelOfStation(cl) :
            cl \in UNION {[1..n -> QueryChannels] :
                            n \in 0..MaxQueryChannels}}
    /\ op = "idle"
    /\ args = <<>>
    /\ result = <<>>
    /\ logged = <<>>

(***************************************************************************)
(* The outcomes of the query op with the arguments a on the model nl, and  *)
(* the caller issuing the query in progress once more.                     *)
(***************************************************************************)
QueryOutcomes(nl, o, a) ==
    CASE o = "spans" -> {spans(a.self, a.a)}
      [] o = "iter_network_station_channels" ->
            {iter_network_station_channels(nl, a.net, a.sta, a.loc, a.cha,
                                           a.time, a.timespan)}
      [] o = "get_channel_groups" ->
            {get_channel_groups(nl, a.net, a.sta, a.loc, a.cha,
                                a.time, a.timespan)}
      [] o = "choose_channels" -> choose_channels(nl, a)
      [] o = "get_pyrocko_response" ->
            {get_pyrocko_response(nl, a.nslc, a.time, a.timespan,
                                  a.fake_input_units)}
      [] o = "get_pyrocko_stations" ->
            {get_pyrocko_stations(nl, a.nslcs, a.time, a.timespan,
                                  a.inconsistencies)}

QueryLogged(nl, o, a) ==
    CASE o = "spans" -> {<<>>}
      [] o = "iter_network_station_channels" -> {<<>>}
      [] o = "get_channel_groups" ->
            get_channel_groups_logged(nl, a.net, a.sta, a.loc, a.cha,
                                      a.time, a.timespan)
      [] o = "choose_channels" ->
            get_channel_groups_logged(nl, None, None, None, None,
                                      a.time, a.timespan)
      [] o = "get_pyrocko_response" ->
            {get_pyrocko_response_logged(nl, a.nslc, a.time, a.timespan,
                                         a.fake_input_units)}
      [] o = "get_pyrocko_stations" ->
            {get_pyrocko_stations_logged(nl, a.nslcs, a.time, a.timespan,
                                         a.inconsistencies)}

Again ==
    /\ op # "idle"
    /\ op' = op
    /\ args' = args
    /\ result' \in QueryOutcomes(network_list, op, args)
    /\ logged' \in QueryLogged(network_list, op, args)
    /\ UNCHANGED network_list

NextQueries ==
    \/ Spans
    \/ IterNetworkStationChannels
    \/ GetChannelGroups
    \/ ChooseChannels
    \/ GetPyrockoResponse
    \/ GetPyrockoStations
    \/ Again
    \/ Return

SpecQueries == InitQueries /\ [][NextQueries]_vars

(***************************************************************************)
(* A result with the channels it names in place of their positions in the  *)
(* model.                                                                  *)
(***************************************************************************)
ResultByValue(nl, o, r) ==
    IF o = "choose_channels" /\ r.kind = "ok"
    THEN [key \in DOMAIN r.value |-> ChannelAt(nl, r.value[key])]
    ELSE r

C15_ModelUnchanged == [][network_list' = network_list]_vars

(***************************************************************************)
(* load_channel_table(stream).  A line of the stream is kept as whether it *)
(* starts with '#' and as the list t of its '|'-separated fields after     *)
(* rstrip; the location and channel codes are sequences of characters, the *)
(* other fields are strings.  The 17 fields are net, sta, loc, cha, lat,   *)
(* lon, ele, dep, azi, dip, sens, scale, scale_freq, scale_units,          *)
(* sample_rate, start_date, end_date.                                      *)
(***************************************************************************)
FloatText ==
    ("0.0" :> 0) @@ ("1.0" :> 1) @@ ("5.0" :> 5) @@ ("10.0" :> 10)
    @@ ("100.0" :> 100)

TimeText == ("1970-01-01T00:00:00" :> 0) @@ ("1970-01-01T00:00:01" :> 1)

(***************************************************************************)
(* regularize() of the station and of the channel made from the fields:    *)
(* ValidationError when a float or time field cannot be converted (the     *)
(* conversion itself is in pyrocko.guts).                                  *)
(***************************************************************************)
StationRegularizeFails(t) ==
    \E k \in {5, 6, 7} : t[k] \notin DOMAIN FloatText

ChannelRegularizeFails(t) ==
    \/ \E k \in {5, 6, 7, 8, 9, 10, 15} : t[k] \notin DOMAIN FloatText
    \/ t[12] # "" /\ \E k \in {12, 13} : t[k] \notin DOMAIN FloatText
    \/ t[16] \notin DOMAIN TimeText
    \/ t[17] # "" /\ t[17] \notin DOMAIN TimeText

TableStation(t) ==
    PositionedStation(t[2], <<>>, FloatWithUnit(Finite(FloatText[t[5]])),
                      FloatWithUnit(Finite(FloatText[t[6]])),
                      Some(FloatWithUnit(Finite(FloatText[t[7]]))), None)

TableChannel(t) ==
    [PositionedChannel(t[4], Strip(t[3]),
                       FloatWithUnit(Finite(FloatText[t[5]])),
                       FloatWithUnit(Finite(FloatText[t[6]])),
                       Some(FloatWithUnit(Finite(FloatText[t[7]]))),
                       Some(FloatWithUnit(Finite(FloatText[t[8]]))))
        EXCEPT !.azimuth = Some(FloatWithUnit(Finite(FloatText[t[9]]))),
               !.dip = Some(FloatWithUnit(Finite(FloatText[t[10]]))),
               !.response = IF t[12] # "" THEN WithUnit(t[14]) ELSE None,
               !.sample_rate = Some(PyFloat(FloatText[t[15]] * Hz)),
               !.start_date = Some(TimeText[t[16]]),
               !.end_date = IF t[17] # "" THEN Some(TimeText[t[17]])
                            ELSE None]

(***************************************************************************)
(* The networks built so far, in the order of their first record, with the *)
(* record t added: a new network and a new station where the codes are     *)
(* new, and the channel appended to its station.                           *)
(***************************************************************************)
AddRecord(nets, t) ==
    LET withNet ==
            IF \E i \in 1..Len(nets) : nets[i].code = t[1] THEN nets
            ELSE Append(nets, Network(t[1], None, None, <<>>))
        ni == CHOOSE i \in 1..Len(withNet) : withNet[i].code = t[1]
        stations == withNet[ni].station_list
        withSta ==
            IF \E i \in 1..Len(stations) : stations[i].code = t[2]
            THEN stations
            ELSE Append(stations, TableStation(t))
        si == CHOOSE i \in 1..Len(withSta) : withSta[i].code = t[2]
    IN  [withNet EXCEPT ![ni].station_list =
            [withSta EXCEPT ![si].channel_list =
                Append(withSta[si].channel_list, TableChannel(t))]]

HasStation(nets, t) ==
    \E i \in 1..Len(nets) :
        /\ nets[i].code = t[1]
        /\ \E j \in 1..Len(nets[i].station_list) :
                nets[i].station_list[j].code = t[2]

RECURSIVE TableLoopKeepingGoodRecords(_, _)
TableLoopKeepingGoodRecords(stream, nets) ==
    IF stream = <<>> THEN Ok(nets)
    ELSE LET line == Head(stream)
             t == line.t
         IN  IF line.startswith_hash
             THEN TableLoopKeepingGoodRecords(Tail(stream), nets)
             ELSE IF Len(t) # 17 THEN Ok(nets)
             ELSE IF ~HasStation(nets, t) /\ StationRegularizeFails(t)
             THEN Ok(nets)
             ELSE IF ChannelRegularizeFails(t) THEN Ok(nets)
             ELSE TableLoopKeepingGoodRecords(Tail(stream),
                                              AddRecord(nets, t))

RECURSIVE TableLoop(_, _)
TableLoop(stream, nets) ==
    IF stream = <<>> THEN Ok(nets)
    ELSE LET line == Head(stream)
             t == line.t
         IN  IF line.startswith_hash THEN TableLoop(Tail(stream), nets)
             ELSE IF Len(t) # 17 THEN Raise("InvalidRecord")
             ELSE IF ~HasStation(nets, t) /\ StationRegularizeFails(t)
             THEN Raise("InvalidRecord")
             ELSE IF ChannelRegularizeFails(t) THEN Raise("InvalidRecord")
             ELSE TableLoop(Tail(stream), AddRecord(nets, t))

(***************************************************************************)
(* The returned model lists the networks as sorted() orders the Network    *)
(* objects: in some order.                                                 *)
(***************************************************************************)
load_channel_table(stream) ==
    LET r == TableLoop(stream, <<>>)
    IN  IF r.kind # "ok" THEN {r}
        ELSE {Ok(p) : p \in Orderings(r.value)}

(***************************************************************************)
(* Inputs of the table loader: streams of up to MaxLines lines, each a     *)
(* comment, a record of 16, 17 or 18 fields, or a record of 17 fields of   *)
(* which one cannot be converted.                                          *)
(***************************************************************************)
MaxLines == 3

TableRecord(net, sta, cha, lat, scale, sample_rate, end_date) ==
    <<net, sta, <<" ">>, cha, lat, "5.0", "100.0", "0.0", "0.0", "0.0",
      "STS-2", scale, "1.0", "M/S", sample_rate, "1970-01-01T00:00:00",
      end_date>>

GoodFields ==
    {TableRecord(net, sta, cha, "10.0", "100.0", "100.0", "") :
        net \in {"N1", "N2"}, sta \in {"S1", "S2"}, cha \in {HHZ}}
    \cup {TableRecord("N1", "S1", HHN, "10.0", "", "100.0",
                      "1970-01-01T00:00:01")}

BadFields ==
    {TableRecord("N1", "S1", HHZ, "north", "100.0", "100.0", ""),
     TableRecord("N1", "S1", HHZ, "10.0", "100.0", "fast", ""),
     TableRecord("N1", "S1", HHZ, "10.0", "100.0", "100.0", "never"),
     SubSeq(TableRecord("N1", "S1", HHZ, "10.0", "100.0", "100.0", ""),
            1, 16),
     Append(TableRecord("N1", "S1", HHZ, "10.0", "100.0", "100.0", ""), "")}

TableLines ==
    {[startswith_hash |-> FALSE, t |-> t] : t \in GoodFields \cup BadFields}
    \cup {[startswith_hash |-> TRUE, t |-> <<"# a comment">>],
          [startswith_hash |-> TRUE,
           t |-> <<"#N1", "S1", "", "HHZ">>]}

InitTable ==
    /\ network_list = <<>>
    /\ op = "idle"
    /\ args = <<>>
    /\ result = <<>>
    /\ logged = <<>>

LoadChannelTable ==
    \E stream \in UNION {[1..n -> TableLines] : n \in 0..MaxLines} :
        /\ op = "idle"
        /\ op' = "load_channel_table"
        /\ args' = [stream |-> stream]
        /\ result' \in load_channel_table(stream)
        /\ logged' = <<>>
        /\ UNCHANGED network_list

NextTable == LoadChannelTable \/ Return

SpecTable == InitTable /\ [][NextTable]_vars

(***************************************************************************)
(* The records of a stream as the claim reads them: the lines that do not  *)
(* start with '#'; a record is bad when it has not exactly 17 fields or a  *)
(* field of it cannot be converted to its type.                            *)
(***************************************************************************)
ClaimedRecords(stream) ==
    SelectSeq(stream, LAMBDA line : ~line.startswith_hash)

ClaimedBadRecord(t) ==
    \/ Len(t) # 17
    \/ /\ Len(t) = 17
       /\ \/ \E k \in {5, 6, 7, 8, 9, 10, 15} : t[k] \notin DOMAIN FloatText
          \/ t[12] # "" /\ \E k \in {12, 13} : t[k] \notin DOMAIN FloatText
          \/ t[16] \notin DOMAIN TimeText
          \/ t[17] \notin DOMAIN TimeText \cup {""}

(***************************************************************************)
(* C17: load_channel_table fails with InvalidRecord when a line that does  *)
(* not start with '#' has not exactly 17 fields or a field that fails type *)
(* validation, and returns no model then; lines starting with '#' are      *)
(* skipped; when every record is valid the model holds one network per     *)
(* distinct network code, one station per distinct (network, station) pair *)
(* and one channel per record.                                             *)
(***************************************************************************)
C17_LoadChannelTable ==
    op = "load_channel_table" =>
        LET recs == ClaimedRecords(args.stream)
            bad == \E i \in 1..Len(recs) : ClaimedBadRecord(recs[i].t)
            nets == result.value
            Stations(i) == nets[i].station_list
        IN  /\ bad => result = Raise("InvalidRecord")
            /\ ~bad =>
                /\ result.kind = "ok"
                /\ {nets[i].code : i \in 1..Len(nets)}
                     = {recs[i].t[1] : i \in 1..Len(recs)}
                /\ \A i, j \in 1..Len(nets) :
                     nets[i].code = nets[j].code => i = j
                /\ \A i \in 1..Len(nets) :
                     /\ {Stations(i)[j].code : j \in 1..Len(Stations(i))}
                          = {recs[k].t[2] : k \in
                                {x \in 1..Len(recs) :
                                    recs[x].t[1] = nets[i].code}}
                     /\ \A j, k \in 1..Len(Stations(i)) :
                          Stations(i)[j].code = Stations(i)[k].code => j = k
                     /\ \A j \in 1..Len(Stations(i)) :
                          Len(Stations(i)[j].channel_list)
                            = Cardinality({x \in 1..Len(recs) :
                                /\ recs[x].t[1] = nets[i].code
                                /\ recs[x].t[2] = Stations(i)[j].code})

C17_Witness ==
    /\ op = "load_channel_table"
    /\ Len(args.stream) = 3
    /\ args.stream[1].startswith_hash
    /\ ~args.stream[2].startswith_hash
    /\ ~ClaimedBadRecord(args.stream[2].t)
    /\ ~args.stream[3].startswith_hash
    /\ Len(args.stream[3].t) = 17
    /\ ClaimedBadRecord(args.stream[3].t)
    /\ result = Raise("InvalidRecord")

(***************************************************************************)
(* C18: the diagnostics of an operation (inconsistent sample rates in a    *)
(* bucket, normalization-factor mismatch, several poles/zeros descriptions *)
(* in a stage, inconsistent channel positions) are returned with its       *)
(* result and are not emitted through state shared between callers: no     *)
(* query hands a record to the module's logger.                            *)
(***************************************************************************)
C18_DiagnosticsNotThroughSharedState ==
    op # "idle" => logged = <<>>

(***************************************************************************)
(* Inputs of the normalization check: one stage with one poles/zeros       *)
(* description of a supported or an unsupported type, a declared factor    *)
(* 0, 1 or 2 and no or one zero or pole; the distances are such that the   *)
(* response evaluates at the normalization frequency to 0.95, 0.98, 0.99,  *)
(* 1.02 or 1.03 times the factor, to a half of it, to 0 or to 1 / 0.98.    *)
(***************************************************************************)
NormalizationChoices ==
    {PolesZerosOf(t, nf, zeros, poles) :
        t \in {"LAPLACE (RADIANS/SECOND)", "LAPLACE (HERTZ)"},
        nf \in {0, 1, 2},
        zeros \in {<<>>, <<PoleZero(95)>>, <<PoleZero(98)>>, <<PoleZero(99)>>,
                   <<PoleZero(102)>>, <<PoleZero(103)>>, <<PoleZero(50)>>,
                   <<PoleZero(0)>>},
        poles \in {<<>>, <<PoleZero(98)>>}}

InitNormalization ==
    /\ network_list \in
        {ModelOfResponse(Response(None,
            <<ResponseStage(<<pz>>, <<>>, None, None, None, gain)>>)) :
            pz \in NormalizationChoices, gain \in {None, Some(Gain(3))}}
    /\ op = "idle"
    /\ args = <<>>
    /\ result = <<>>
    /\ logged = <<>>

CallPolesZerosGetPyrockoResponse ==
    \E p \in Range(AllPaths(network_list)) :
        \E i \in 1..Len(ChannelAt(network_list, p).response[1].stage_list) :
            LET stage == ChannelAt(network_list, p).response[1].stage_list[i]
            IN  \E j \in 1..Len(stage.poles_zeros_list) :
                    /\ op = "idle"
                    /\ op' = "PolesZeros.get_pyrocko_response"
                    /\ args' = [self |-> stage.poles_zeros_list[j]]
                    /\ result' = PolesZerosGetPyrockoResponse(
                                    stage.poles_zeros_list[j])
                    /\ logged' = PolesZerosLogged(stage.poles_zeros_list[j])
                    /\ UNCHANGED network_list

NextNormalization ==
    \/ CallPolesZerosGetPyrockoResponse
    \/ CallStageGetPyrockoResponse
    \/ Return

SpecNormalization == InitNormalization /\ [][NextNormalization]_vars

(***************************************************************************)
(* The claimed check: the factor recomputed at the normalization frequency *)
(* is the declared factor over the magnitude of the response there; its    *)
(* relative difference to the declared factor is defined where the         *)
(* declared factor is not 0 and the magnitude is neither 0 nor infinite.   *)
(***************************************************************************)
ClaimedMagnitude(pz) ==
    EvaluateAbs(PoleZeroResponse(pz.normalization_factor, pz.zero_list,
                                 pz.pole_list))

ClaimedDifferenceDefined(pz) ==
    /\ pz.normalization_factor # 0
    /\ ClaimedMagnitude(pz).num # 0
    /\ ClaimedMagnitude(pz).den # 0

ClaimedExceedsTwoPercent(pz) ==
    LET m == ClaimedMagnitude(pz)
    IN  \/ 50 * (m.den - m.num) > m.num
        \/ 50 * (m.num - m.den) > m.num

ClaimedNormalizationOutcome(pz, term, records) ==
    /\ term = PoleZeroResponse(pz.normalization_factor,
                               pz.zero_list, pz.pole_list)
    /\ Len(records) <= 1
    /\ \A i \in 1..Len(records) :
            /\ records[i].levelname = "WARNING"
            /\ records[i].msg
                = "computed and reported normalization factors differ"
    /\ ClaimedDifferenceDefined(pz) =>
            (records # <<>> <=> ClaimedExceedsTwoPercent(pz))

(***************************************************************************)
(* C19: the normalization check of a poles/zeros description (of the       *)
(* supported type) is not fatal and does not alter the result: the         *)
(* conversion succeeds and the returned pole-zero term has the declared    *)
(* normalization factor as its constant whether or not the recomputed      *)
(* factor differs from it, in PolesZeros.get_pyrocko_response and in the   *)
(* stage that holds the description; the diagnostic is logged exactly when *)
(* the relative difference exceeds 2%.                                     *)
(***************************************************************************)
C19_NormalizationCheckNonFatal ==
    /\ (op = "PolesZeros.get_pyrocko_response"
        /\ args.self.pz_transfer_function_type = "LAPLACE (RADIANS/SECOND)")
        => /\ result.kind = "ok"
           /\ ClaimedNormalizationOutcome(args.self, result.value, logged)
    /\ (op = "ResponseStage.get_pyrocko_response"
        /\ Len(args.self.poles_zeros_list) = 1
        /\ args.self.poles_zeros_list[1].pz_transfer_function_type
            = "LAPLACE (RADIANS/SECOND)")
        => /\ result.kind = "ok"
           /\ Len(result.value) >= 1
           /\ ClaimedNormalizationOutcome(args.self.poles_zeros_list[1],
                                          result.value[1], logged)

C19_Witness ==
    /\ op = "PolesZeros.get_pyrocko_response"
    /\ args.self.pz_transfer_function_type = "LAPLACE (RADIANS/SECOND)"
    /\ args.self.normalization_factor = 1
    /\ args.self.zero_list = <<PoleZero(95)>>
    /\ args.self.pole_list = <<>>
    /\ result.kind = "ok"
    /\ result.value.constant = 1
    /\ Len(logged) = 1

(***************************************************************************)
(* Regrouping.  A caller builds the model that holds the channels of a     *)
(* result of get_channel_groups only (its networks and stations, the       *)
(* channel lists reduced to the grouped channels, in their order) and      *)
(* calls get_channel_groups on it with the same arguments.  The regrouped  *)
(* channels are given by their paths in the first model.                   *)
(***************************************************************************)
MaxRegroupChannels == 4

BHZ == <<"B", "H", "Z">>

RegroupRecords ==
    [slot : {<<1, 1>>, <<1, 2>>}, code : {HHZ, BHZ}, loc : {<<>>},
     response : {WithUnit("M/S")},
     rate : {PyFloat(100 * Hz), PyFloat(50 * Hz)}]

KeptIndices(nl, groups, ni, si) ==
    SelectSeq(Indices(nl[ni].station_list[si].channel_list),
              LAMBDA ci :
                \E k \in DOMAIN groups :
                    \E bic \in DOMAIN groups[k] :
                        <<ni, si, ci>> \in Range(groups[k][bic]))

Survivors(nl, groups) ==
    [ni \in 1..Len(nl) |->
        [nl[ni] EXCEPT !.station_list =
            [si \in 1..Len(nl[ni].station_list) |->
                [nl[ni].station_list[si] EXCEPT !.channel_list =
                    LET kept == KeptIndices(nl, groups, ni, si)
                    IN  [j \in 1..Len(kept) |->
                            nl[ni].station_list[si].channel_list[kept[j]]]]]]]

OriginalPath(nl, groups, p) ==
    <<p[1], p[2], KeptIndices(nl, groups, p[1], p[2])[p[3]]>>

Regrouped(nl, groups, a) ==
    LET again == get_channel_groups(Survivors(nl, groups), a.net, a.sta,
                                    a.loc, a.cha, a.time, a.timespan)
    IN  IF again.kind # "ok" THEN again
        ELSE Ok([k \in DOMAIN again.value |->
                    [bic \in DOMAIN again.value[k] |->
                        [i \in 1..Len(again.value[k][bic]) |->
                            OriginalPath(nl, groups,
                                         again.value[k][bic][i])]]])

InitRegroup ==
    /\ network_list \in
        {ModelOf(recs) :
            recs \in RecordLists(RegroupRecords, MaxRegroupChannels)}
    /\ op = "idle"
    /\ args = <<>>
    /\ result = <<>>
    /\ logged = <<>>

Regroup ==
    /\ op = "get_channel_groups"
    /\ result.kind = "ok"
    /\ op' = "get_channel_groups again"
    /\ args' = [groups |-> result.value, query |-> args]
    /\ result' = Regrouped(network_list, result.value, args)
    /\ logged' \in get_channel_groups_logged(
                        Survivors(network_list, result.value), args.net,
                        args.sta, args.loc, args.cha, args.time,
                        args.timespan)
    /\ UNCHANGED network_list

NextRegroup == GetChannelGroups \/ Regroup \/ Return

SpecRegroup == InitRegroup /\ [][NextRegroup]_vars

(***************************************************************************)
(* C20 as stated: grouping is idempotent; get_channel_groups applied to    *)
(* the channels of its own result yields the same scopes, the same bucket  *)
(* keys and the same member lists.                                         *)
(***************************************************************************)
C20_RegroupingYieldsSameGroups ==
    op = "get_channel_groups again" => result = Ok(args.groups)

ScopesWithBuckets(groups) ==
    {k \in DOMAIN groups : DOMAIN groups[k] # {}}

(***************************************************************************)
(* C20, amended: get_channel_groups applied to the channels of its own     *)
(* result succeeds, logs nothing and yields, for every scope that has a    *)
(* bucket in the result, the same bucket keys and the same member lists;   *)
(* a scope that is in the result without any bucket (all its buckets were  *)
(* dropped) is not in the regrouping.                                      *)
(***************************************************************************)
C20_RegroupingYieldsSameBuckets ==
    op = "get_channel_groups again" =>
        /\ result.kind = "ok"
        /\ logged = <<>>
        /\ DOMAIN result.value = ScopesWithBuckets(args.groups)
        /\ \A k \in ScopesWithBuckets(args.groups) :
                /\ DOMAIN result.value[k] = DOMAIN args.groups[k]
                /\ \A bic \in DOMAIN args.groups[k] :
                        result.value[k][bic] = args.groups[k][bic]

C20_Witness ==
    /\ op = "get_channel_groups again"
    /\ Cardinality(DOMAIN args.groups) = 2
    /\ Cardinality(ScopesWithBuckets(args.groups)) = 1
    /\ \E k \in ScopesWithBuckets(args.groups) :
            /\ Cardinality(DOMAIN args.groups[k]) = 2
            /\ result.value[k] = args.groups[k]
    /\ Cardinality(DOMAIN result.value) = 1

(***************************************************************************)
(* Inputs of the unit queries: channels 'HHZ' and 'HHN' of N1.S1 at 100 Hz *)
(* whose response is missing, has no overall sensitivity, has a            *)
(* sensitivity without input units, or declares 'M/S' or 'M'.              *)
(***************************************************************************)
UnitResponses ==
    {None, Some(Response(None, <<>>)),
     Some(Response(Some(Sensitivity(None)), <<>>)),
     WithUnit("M/S"), WithUnit("M")}

UnitRecords ==
    [slot : {<<1, 1>>}, code : {HHZ, HHN}, loc : {<<>>},
     response : UnitResponses, rate : {PyFloat(100 * Hz)}]

InitUnits ==
    /\ network_list \in
        {ModelOf(recs) : recs \in RecordLists(UnitRecords, MaxChannels)}
    /\ op = "idle"
    /\ args = <<>>
    /\ result = <<>>
    /\ logged = <<>>

NextUnits == GetChannelGroups \/ ChooseChannels \/ Return

SpecUnits == InitUnits /\ [][NextUnits]_vars

(***************************************************************************)
(* The claimed unit of a channel: the declared input unit, or no declared  *)
(* unit at all where the response, its overall sensitivity or the input    *)
(* units of the sensitivity are missing.                                   *)
(***************************************************************************)
ClaimedDeclaredUnit(channel) ==
    IF /\ channel.response # None
       /\ channel.response[1].instrument_sensitivity # None
       /\ channel.response[1].instrument_sensitivity[1].input_units # None
    THEN Some(channel.response[1].instrument_sensitivity[1].input_units[1].name)
    ELSE None

DeclaredUnits(nl) ==
    {ClaimedDeclaredUnit(ChannelAt(nl, p)) : p \in Range(AllPaths(nl))}
        \ {None}

(***************************************************************************)
(* C21: get_channel_groups never fails on a channel that lacks a response, *)
(* an overall sensitivity or a declared input unit; every such channel is  *)
(* in a bucket whose unit is none of the declared units, and               *)
(* choose_channels, which ranks that unit after the units of the priority  *)
(* list, does not fail on it either.                                       *)
(***************************************************************************)
C21_MissingUnitNeverFails ==
    /\ op \in {"get_channel_groups", "choose_channels"} => result.kind = "ok"
    /\ (op = "get_channel_groups" /\ result.kind = "ok") =>
        \A p \in Range(AllPaths(network_list)) :
            ClaimedDeclaredUnit(ChannelAt(network_list, p)) = None =>
                \E k \in DOMAIN result.value :
                    \E bic \in DOMAIN result.value[k] :
                        /\ p \in Range(result.value[k][bic])
                        /\ bic[2] \notin DeclaredUnits(network_list)

(***************************************************************************)
(* The claimed priority indices of a bucket whose channels have the code   *)
(* given: the position (from 0) of the first character in the band list,   *)
(* whatever the length of the code, and of the second character of a       *)
(* 3-character code in the instrument list; the length of the list where   *)
(* there is no such position.                                              *)
(***************************************************************************)
ClaimedPosition(list, c) ==
    IF \E i \in 1..Len(list) : list[i] = c
    THEN (CHOOSE i \in 1..Len(list) :
            list[i] = c /\ \A j \in 1..Len(list) : list[j] = c => i <= j) - 1
    ELSE Len(list)

ClaimedBandIndex(a, code) ==
    IF code = <<>> THEN Len(a.priority_band_code)
    ELSE ClaimedPosition(a.priority_band_code, code[1])

ClaimedInstrumentIndex(a, code) ==
    IF Len(code) = 3 THEN ClaimedPosition(a.priority_instrument_code, code[2])
    ELSE Len(a.priority_instrument_code)

(***************************************************************************)
(* C22: in choose_channels the band priority index of every bucket is the  *)
(* position of the first character of its channel codes in the band        *)
(* priority list (last only when the character is not in the list,         *)
(* whatever the length of the code), and its instrument priority index is  *)
(* the position of the second character of a 3-character code in the       *)
(* instrument priority list (last for another length or a character not in *)
(* the list).                                                              *)
(***************************************************************************)
C22_PriorityIndices ==
    op = "choose_channels" =>
        LET g == get_channel_groups(network_list, None, None, None, None,
                                    args.time, args.timespan)
        IN  g.kind = "ok" =>
                \A k \in DOMAIN g.value :
                    \A bic \in DOMAIN g.value[k] :
                        LET channels == g.value[k][bic]
                            code == ChannelAt(network_list, channels[1]).code
                            t == RankTuple(network_list, args, bic, channels)
                        IN  /\ t[2] = ClaimedBandIndex(args, code)
                            /\ t[5] = ClaimedInstrumentIndex(args, code)

(***************************************************************************)
(* The part of C22 that holds: the instrument index is as claimed, and the *)
(* band index is as claimed for the 3-character codes.                     *)
(***************************************************************************)
C22_ThreeCharacterCodes ==
    op = "choose_channels" =>
        LET g == get_channel_groups(network_list, None, None, None, None,
                                    args.time, args.timespan)
        IN  g.kind = "ok" =>
                \A k \in DOMAIN g.value :
                    \A bic \in DOMAIN g.value[k] :
                        LET channels == g.value[k][bic]
                            code == ChannelAt(network_list, channels[1]).code
                            t == RankTuple(network_list, args, bic, channels)
                        IN  /\ Len(code) = 3 =>
                                t[2] = ClaimedBandIndex(args, code)
                            /\ t[5] = ClaimedInstrumentIndex(args, code)

(***************************************************************************)
(* Inputs of the station entities: network N1 (open, or starting at 1)     *)
(* with station S1, which has up to MaxEntityChannels channels 'HHZ' or    *)
(* 'HHN' with location '', ' ' or '00' (open, or starting at 1), all at    *)
(* one position, and station S2 without channels, which ends at 0.         *)
(***************************************************************************)
MaxEntityChannels == 3

EntityChannels ==
    {[PositionedChannel(code, loc, FloatWithUnit(Finite(10)),
                        FloatWithUnit(Finite(5)),
                        Some(FloatWithUnit(Finite(100))),
                        Some(FloatWithUnit(Finite(0))))
        EXCEPT !.start_date = start] :
        code \in {HHZ, HHN}, loc \in {<<>>, <<" ">>, <<"0", "0">>},
        start \in {None, Some(1)}}

ModelOfEntities(start, channel_list) ==
    <<Network("N1", start, None,
        <<PositionedStation("S1", channel_list, FloatWithUnit(Finite(10)),
                            FloatWithUnit(Finite(5)),
                            Some(FloatWithUnit(Finite(100))), None),
          [PositionedStation("S2", <<>>, FloatWithUnit(Finite(20)),
                             FloatWithUnit(Finite(5)), None,
                             Some("a station"))
            EXCEPT !.end_date = Some(0)]>>)>>

EntityAllowLists ==
    {None, Some({}), Some({<<"N1", "S1", <<>>, HHZ>>}),
     Some({<<"N1", "S1", <<>>, HHZ>>, <<"N1", "S1", <<"0", "0">>, HHZ>>,
           <<"N1", "S1", <<" ">>, HHN>>})}

EntityQueries ==
    {[time |-> None, timespan |-> None],
     [time |-> Some(0), timespan |-> None],
     [time |-> Some(1), timespan |-> None],
     [time |-> None, timespan |-> Some(<<1, 2>>)]}

InitEntities ==
    /\ network_list \in
         {ModelOfEntities(start, cl) :
            start \in {None, Some(1)},
            cl \in UNION {[1..n -> EntityChannels] :
                            n \in 0..MaxEntityChannels}}
    /\ op = "idle"
    /\ args = <<>>
    /\ result = <<>>
    /\ logged = <<>>

GetPyrockoStationsInEpoch ==
    \E nslcs \in EntityAllowLists, q \in EntityQueries,
       inconsistencies \in {"raise", "warn"} :
        /\ op = "idle"
        /\ op' = "get_pyrocko_stations"
        /\ args' = [nslcs |-> nslcs, time |-> q.time,
                    timespan |-> q.timespan,
                    inconsistencies |-> inconsistencies]
        /\ result' = get_pyrocko_stations(network_list, nslcs, q.time,
                                          q.timespan, inconsistencies)
        /\ logged' = get_pyrocko_stations_logged(
                        network_list, nslcs, q.time, q.timespan,
                        inconsistencies)
        /\ UNCHANGED network_list

NextEntities == GetPyrockoStationsInEpoch \/ Return

SpecEntities == InitEntities /\ [][NextEntities]_vars

(***************************************************************************)
(* The claimed entities, as (network, station, location, channel codes):   *)
(* per network and station that span the query, one entity '*' for a       *)
(* station without channels, else one entity per stripped location code    *)
(* that has an eligible channel (spanning the query and, if there is an    *)
(* allow-list, listed in it), in ascending order of the location codes.    *)
(***************************************************************************)
ClaimedEligible(net, station, loc, nslcs, tt) ==
    SelectSeq(station.channel_list,
        LAMBDA c :
            /\ spans(c, tt)
            /\ Strip(c.location_code) = loc
            /\ (nslcs = None \/ <<net.code, station.code, loc, c.code>>
                                    \in nslcs[1]))

ClaimedLocations(net, station, nslcs, tt) ==
    LET locs == {loc \in {Strip(station.channel_list[i].location_code) :
                            i \in 1..Len(station.channel_list)} :
                    ClaimedEligible(net, station, loc, nslcs, tt) # <<>>}
    IN  CHOOSE s \in [1..Cardinality(locs) -> locs] :
            \A i, j \in 1..Cardinality(locs) : i < j => StrLess(s[i], s[j])

ClaimedStationEntities(net, station, nslcs, tt) ==
    IF station.channel_list = <<>>
    THEN <<[network |-> net.code, station |-> station.code,
            location |-> <<"*">>, channels |-> <<>>]>>
    ELSE LET locs == ClaimedLocations(net, station, nslcs, tt)
         IN  [i \in 1..Len(locs) |->
                [network |-> net.code, station |-> station.code,
                 location |-> locs[i],
                 channels |->
                    LET cs == ClaimedEligible(net, station, locs[i],
                                              nslcs, tt)
                    IN  [j \in 1..Len(cs) |-> cs[j].code]]]

ClaimedEntities(nl, nslcs, tt) ==
    Concat([ni \in 1..Len(nl) |->
        IF ~spans(nl[ni], tt) THEN <<>>
        ELSE Concat([si \in 1..Len(nl[ni].station_list) |->
            IF ~spans(nl[ni].station_list[si], tt) THEN <<>>
            ELSE ClaimedStationEntities(nl[ni], nl[ni].station_list[si],
                                        nslcs, tt)])])

EntityOf(pstation) ==
    [network |-> pstation.network, station |-> pstation.station,
     location |-> pstation.location,
     channels |-> IF "channels" \in DOMAIN pstation
                  THEN [j \in 1..Len(pstation.channels) |->
                            pstation.channels[j].name]
                  ELSE <<>>]

(***************************************************************************)
(* C23: get_pyrocko_stations returns, for every network and station that   *)
(* span the query, exactly one station entity with location '*' when the   *)
(* station declares no channels, whatever the allow-list, and otherwise    *)
(* exactly one entity per stripped location code that has a channel which  *)
(* spans the query and is in the allow-list (if one is given), in          *)
(* ascending location order and built only from those channels; a location *)
(* without such a channel yields no entity.                                *)
(***************************************************************************)
C23_StationEntities ==
    (op = "get_pyrocko_stations" /\ args.inconsistencies \in {"raise", "warn"})
        => /\ result.kind = "ok"
           /\ [i \in 1..Len(result.value) |-> EntityOf(result.value[i])]
                = ClaimedEntities(network_list, args.nslcs,
                                  TimeArgs(args.time, args.timespan))

C23_Witness ==
    /\ op = "get_pyrocko_stations"
    /\ args.time = Some(0)
    /\ args.nslcs # None
    /\ Len(network_list[1].station_list[1].channel_list) = 3
    /\ network_list[1].station_list[1].channel_list[1].location_code
        = <<"0", "0">>
    /\ result.kind = "ok"
    /\ Len(result.value) = 3
    /\ result.value[1].location = <<>>
    /\ Len(result.value[1].channels) = 1
    /\ result.value[2].location = <<"0", "0">>
    /\ result.value[3].location = <<"*">>

(***************************************************************************)
(* rdseed.dumb_parser: the loop over the characters of data.  st holds the *)
(* locals state, new_state, rows, cols and accu; new_state is None until   *)
(* its first assignment, and reading it then is the UnboundLocalError of   *)
(* 'state = new_state'.  The three tests of state are made in turn on the  *)
(* state the character was met in.                                         *)
(***************************************************************************)
ParserWhitespace == {" ", "\t", "\n", "\r"}

LineBreaks == {"\n", "\r"}

ParserStep(st, c) ==
    LET s1 == IF st.state = "in_ws"
              THEN IF c = "\"" THEN [st EXCEPT !.new_state = Some("in_str")]
                   ELSE IF c \notin ParserWhitespace
                   THEN [st EXCEPT !.new_state = Some("in_kw")]
                   ELSE st
              ELSE st
        s2 == IF st.state = "in_kw" /\ c \in ParserWhitespace
              THEN [s1 EXCEPT
                      !.cols = IF c \in LineBreaks THEN <<>>
                               ELSE Append(s1.cols, s1.accu),
                      !.rows = IF c \in LineBreaks
                               THEN Append(s1.rows, Append(s1.cols, s1.accu))
                               ELSE s1.rows,
                      !.accu = <<>>,
                      !.new_state = Some("in_ws")]
              ELSE s1
        s3 == IF st.state = "in_str" /\ c = "\""
              THEN [s2 EXCEPT
                      !.cols = Append(s2.cols,
                                      SubSeq(s2.accu, 2, Len(s2.accu))),
                      !.accu = <<>>,
                      !.new_state = Some("in_ws")]
              ELSE s2
    IN  IF s3.new_state = None THEN Raise("UnboundLocalError")
        ELSE Ok([s3 EXCEPT
                    !.state = s3.new_state[1],
                    !.accu = IF s3.new_state[1] \in {"in_kw", "in_str"}
                             THEN Append(s3.accu, c) ELSE s3.accu])

RECURSIVE ParserLoop(_, _)
ParserLoop(data, st) ==
    IF data = <<>>
    THEN Ok(IF st.cols # <<>> THEN Append(st.rows, st.cols) ELSE st.rows)
    ELSE LET next == ParserStep(st, Head(data))
         IN  IF next.kind # "ok" THEN next
             ELSE ParserLoop(Tail(data), next.value)

dumb_parser(data) ==
    ParserLoop(data, [state |-> "in_ws", new_state |-> None,
                      rows |-> <<>>, cols |-> <<>>, accu |-> <<>>])

(***************************************************************************)
(* Specification of the parser: texts of up to MaxText characters out of   *)
(* a letter, a blank, a line break and a double quote.                     *)
(***************************************************************************)
MaxText == 5

ParserTexts ==
    UNION {[1..n -> {"a", " ", "\n", "\""}] : n \in 0..MaxText}

InitParser ==
    /\ network_list = <<>>
    /\ op = "idle"
    /\ args = <<>>
    /\ result = <<>>
    /\ logged = <<>>

DumbParser ==
    \E data \in ParserTexts :
        /\ op = "idle"
        /\ op' = "dumb_parser"
        /\ args' = [data |-> data]
        /\ result' = dumb_parser(data)
        /\ logged' = <<>>
        /\ UNCHANGED network_list

NextParser == DumbParser \/ Return

SpecParser == InitParser /\ [][NextParser]_vars

(***************************************************************************)
(* The claimed rows of a text.  Whitespace between tokens is skipped; a    *)
(* double quote opens a string that runs to the next double quote and is   *)
(* one column, without its quotes; any other character opens a keyword     *)
(* that runs to the next whitespace or to the end of the text; a line      *)
(* break that terminates a keyword ends the row; the columns left at the   *)
(* end are the last row.  (A string that is never closed is no token.)     *)
(***************************************************************************)
FirstIndex(data, S) ==
    IF \E i \in 1..Len(data) : data[i] \in S
    THEN CHOOSE i \in 1..Len(data) :
            data[i] \in S /\ \A j \in 1..(i - 1) : data[j] \notin S
    ELSE Len(data) + 1

RECURSIVE ClaimedRows(_, _, _)
ClaimedRows(data, cols, rows) ==
    IF data = <<>>
    THEN IF cols # <<>> THEN Append(rows, cols) ELSE rows
    ELSE IF Head(data) \in ParserWhitespace
    THEN ClaimedRows(Tail(data), cols, rows)
    ELSE IF Head(data) = "\""
    THEN LET close == FirstIndex(Tail(data), {"\""})
         IN  IF close > Len(Tail(data))
             THEN ClaimedRows(<<>>, cols, rows)
             ELSE ClaimedRows(SubSeq(Tail(data), close + 1, Len(Tail(data))),
                              Append(cols, SubSeq(Tail(data), 1, close - 1)),
                              rows)
    ELSE LET end == FirstIndex(data, ParserWhitespace)
             keyword == SubSeq(data, 1, end - 1)
         IN  IF end > Len(data)
             THEN ClaimedRows(<<>>, Append(cols, keyword), rows)
             ELSE IF data[end] \in LineBreaks
             THEN ClaimedRows(SubSeq(data, end + 1, Len(data)), <<>>,
                              Append(rows, Append(cols, keyword)))
             ELSE ClaimedRows(SubSeq(data, end + 1, Len(data)),
                              Append(cols, keyword), rows)

(***************************************************************************)
(* C24: dumb_parser terminates without error on any text and loses no      *)
(* token: every keyword and every double-quoted string is one column       *)
(* (quotes removed), once and in input order, a row ends only at a line    *)
(* break that terminates a keyword, and the last token is emitted also     *)
(* when the text begins with whitespace or ends without trailing           *)
(* whitespace.                                                             *)
(***************************************************************************)
C24_ParserLosesNoToken ==
    op = "dumb_parser" =>
        /\ result.kind = "ok"
        /\ result.value = ClaimedRows(args.data, <<>>, <<>>)

(***************************************************************************)
(* The part of C24 that holds: a text that does not begin with whitespace  *)
(* is parsed without error, and with a blank appended, which terminates    *)
(* its last keyword, its rows are the claimed rows.                        *)
(***************************************************************************)
C24_TerminatedText ==
    (op = "dumb_parser"
     /\ (args.data = <<>> \/ args.data[1] \notin ParserWhitespace)) =>
        /\ result.kind = "ok"
        /\ args.data = <<>> => result.value = <<>>
        /\ args.data # <<>> =>
                dumb_parser(args.data \o <<" ">>)
                    = Ok(ClaimedRows(args.data, <<>>, <<>>))

C24_LeadingWhitespace ==
    (op = "dumb_parser" /\ args.data # <<>>
     /\ args.data[1] \in ParserWhitespace) =>
        result = Raise("UnboundLocalError")

====
